---- MODULE Spec2Model ----
(***************************************************************************)
(* Model of the shoe sale tracker: the SQLite-backed Database              *)
(* (src/src/database.py), the scrape loop of BaseScraper                   *)
(* (src/src/scrapers/base_scraper.py), the Notifier's delivery count       *)
(* (src/src/notifier.py) and ShoeTracker.run_check                         *)
(* (src/src/shoe_tracker.py).                                              *)
(*                                                                         *)
(* The three tables are modelled twice: shoes / price_history /            *)
(* sale_alerts are what the Database's own connection sees (including the  *)
(* writes of a transaction that is still open), committed is what is on    *)
(* disk.  Python's sqlite3 opens a transaction implicitly at the first     *)
(* INSERT/UPDATE and only conn.commit() ends it; the code never rolls      *)
(* back.                                                                   *)
(***************************************************************************)
EXTENDS Integers, Sequences, FiniteSets, TLC

\* ---- bounds of the model ------------------------------------------------
MaxUpserts == 2        \* upsert_shoe calls in one behaviour
MaxCycles == 2        \* run_check cycles in one behaviour
MaxPage == 2          \* listings one parsed page yields
MaxRescrape == 1      \* length of a list the closing re-scrape returns
MaxText == 3          \* characters of a price text
MaxPrice == 4         \* largest of the small prices handed to calculate_discount

\* ---- program constants --------------------------------------------------
MIN_DISCOUNT_PERCENTAGE == 10
NumScrapers == 2

\* Python None / SQL NULL for a price column.
NULL == 0 - 1

Scrapers == 1 .. NumScrapers

\* get_search_urls(): the ordered fetch targets of each scraper, as indices.
get_search_urls(s) == IF s = 1 THEN 1 .. 2 ELSE 1 .. 1

\* TLC cannot index a string: the characters of the product names the model
\* uses, as the sequence Python iterates over
chars(name) ==
    CASE name = "Trail Runner" ->
           <<"T", "r", "a", "i", "l", " ", "R", "u", "n", "n", "e", "r">>
      [] name = "Leather Boot" ->
           <<"L", "e", "a", "t", "h", "e", "r", " ", "B", "o", "o", "t">>
      [] name = "TRAIL SHOE" ->
           <<"T", "R", "A", "I", "L", " ", "S", "H", "O", "E">>
      [] name = "Contrails" ->
           <<"C", "o", "n", "t", "r", "a", "i", "l", "s">>
      [] name = "" -> <<>>

UpperCase == <<"A", "B", "C", "D", "E", "F", "G", "H", "I", "J", "K", "L", "M">>
             \o <<"N", "O", "P", "Q", "R", "S", "T", "U", "V", "W", "X", "Y", "Z">>
LowerCase == <<"a", "b", "c", "d", "e", "f", "g", "h", "i", "j", "k", "l", "m">>
             \o <<"n", "o", "p", "q", "r", "s", "t", "u", "v", "w", "x", "y", "z">>

\* str.lower() of one character
lower_char(ch) ==
    IF \E i \in 1 .. 26 : UpperCase[i] = ch
    THEN LowerCase[CHOOSE i \in 1 .. 26 : UpperCase[i] = ch]
    ELSE ch

\* a comparison that leaves the name as written (rejected by C27)
name_as_written(text) == text

\* name_lower = shoe.get('name', '').lower()
name_lower(text) == [i \in 1 .. Len(text) |-> lower_char(text[i])]

\* Python's `keyword in name_lower`: keyword is a substring of text
contains(text, keyword) ==
    \E i \in 0 .. (Len(text) - Len(keyword)) :
        SubSeq(text, i + 1, i + Len(keyword)) = keyword

\* Config.get_keywords(): the default KEYWORDS, split at the commas,
\* stripped and lower-cased
get_keywords ==
    {<<"r", "u", "n", "n", "i", "n", "g">>,
     <<"r", "u", "n">>,
     <<"r", "u", "n", "n", "e", "r">>,
     <<"t", "r", "a", "i", "l">>,
     <<"m", "a", "r", "a", "t", "h", "o", "n">>,
     <<"a", "t", "h", "l", "e", "t", "i", "c">>}

\* any(keyword in name_lower for keyword in keywords)
name_matches(name) ==
    \E keyword \in get_keywords : contains(name_lower(chars(name)), keyword)

\* ---- listings (the dicts the scrapers emit) -------------------------------
\* website_name of the scrapers run_check works with; the listings of the
\* Database scenarios (SpecDb) carry those of several scrapers
WebsiteName == "Dick's Sporting Goods"

\* 'website': self.website_name is part of every listing
Listing(k, n, cur, orig, disc, sale, hidden, review) ==
    [product_id |-> k, name |-> n, current_price |-> cur,
     original_price |-> orig, discount_percentage |-> disc,
     is_on_sale |-> sale, price_hidden |-> hidden,
     requires_manual_review |-> review, website |-> WebsiteName]

\* a product id made of the site's own identifier alone (rejected by C36)
identifier_only(website, product_identifier) == product_identifier

\* BaseScraper.generate_product_id: f"{website}_{product_identifier}"
generate_product_id(website, product_identifier) ==
    website \o "_" \o product_identifier

\* a normally extracted listing at full price
Normal(k) == Listing(k, "Trail Runner", 100, 100, 0, FALSE, FALSE, FALSE)
\* a normally extracted listing on sale
Sale(k) == Listing(k, "Trail Runner", 80, 100, 20, TRUE, FALSE, FALSE)
\* the hidden-price listing ("see price in cart")
Hidden(k) == Listing(k, "Trail Runner", NULL, NULL, 0, FALSE, TRUE, TRUE)
\* an API listing flagged on sale whose price field is missing
SaleNoPrice(k) == Listing(k, "Trail Runner", NULL, NULL, 20, TRUE, FALSE, FALSE)
\* a listing whose name has no keyword
OffTopic(k) == Listing(k, "Leather Boot", 100, 100, 0, FALSE, FALSE, FALSE)
\* an on-sale listing below the minimum discount
SmallSale(k) == Listing(k, "Trail Runner", 95, 100, 5, TRUE, FALSE, FALSE)
\* an API listing on sale whose original_price is null
SaleNoOriginal(k) == Listing(k, "Trail Runner", 80, NULL, 20, TRUE, FALSE, FALSE)

TrackedIds == {"p1", "p2"}

\* ---- pages (what fetch_page returns) and their parsing ---------------------

\* a key a JSON product does not carry
ABSENT == 0 - 2

\* An item of a fetched page.  kind "html": a product container of an HTML
\* listing page, with what parse_listing_page looks for in it: the name, the
\* hidden-price wording in its text, an element carrying a sale class, and
\* the numbers of its sale-price, regular-price and generic price elements
\* (NULL: no such element).  kind "api": a product of a JSON response with
\* its keys price, original_price, discount_percentage and on_sale.
\* data_sale_price and data_price are the container's data-sale-price and
\* data-price attributes (NULL: the attribute is missing).
Item(kind, k, n, hid, mark, sp, rp, p, orig, disc, sale) ==
    [kind |-> kind, product_id |-> k, name |-> n, hidden_text |-> hid,
     sale_marker |-> mark, sale_price |-> sp, regular_price |-> rp,
     price |-> p, original_price |-> orig, discount_percentage |-> disc,
     on_sale |-> sale, data_sale_price |-> NULL, data_price |-> NULL]

Container(k, n, hid, mark, sp, rp, p) ==
    Item("html", k, n, hid, mark, sp, rp, p, ABSENT, ABSENT, FALSE)

Product(k, n, p, orig, disc, sale) ==
    Item("api", k, n, FALSE, FALSE, NULL, NULL, p, orig, disc, sale)

\* the containers of the listing shapes above
NormalContainer(k) == Container(k, "Trail Runner", FALSE, FALSE, NULL, NULL, 100)
SaleContainer(k) == Container(k, "Trail Runner", FALSE, TRUE, 80, 100, NULL)
HiddenContainer(k) == Container(k, "Trail Runner", TRUE, FALSE, NULL, NULL, NULL)
\* "see price in cart" next to a sale badge and struck-through prices
HiddenSaleContainer(k) == Container(k, "Trail Runner", TRUE, TRUE, 80, 100, 100)
OffTopicContainer(k) == Container(k, "Leather Boot", FALSE, FALSE, NULL, NULL, 100)
SmallSaleContainer(k) == Container(k, "Trail Runner", FALSE, TRUE, 95, 100, NULL)
\* a container without any price element
NoPriceContainer(k) == Container(k, "Trail Runner", FALSE, FALSE, NULL, NULL, NULL)
\* a container whose price is in its data-price attribute, next to a generic
\* price element showing another number
DataPriceContainer(k) ==
    [Container(k, "Trail Runner", FALSE, FALSE, NULL, NULL, 100)
         EXCEPT !.data_price = 90]
\* sale-price, regular-price and generic price elements side by side
AllPricesContainer(k) ==
    Container(k, "Trail Runner", FALSE, TRUE, 80, 100, 100)
\* a sale-price element reading $0.00 next to a generic price element
ZeroSaleContainer(k) ==
    Container(k, "Trail Runner", FALSE, FALSE, 0, NULL, 100)
\* a discount of exactly MIN_DISCOUNT_PERCENTAGE
ThresholdContainer(k) ==
    Container(k, "Trail Runner", FALSE, TRUE, 90, 100, NULL)
\* a container whose only price is its data-sale-price attribute: no element
\* with a sale class, no regular-price element
DataSaleContainer(k) ==
    [Container(k, "Trail Runner", FALSE, FALSE, NULL, NULL, NULL)
         EXCEPT !.data_sale_price = 80]
\* names that differ from the keywords in case or hold one inside a word
NamedContainer(k, n) == Container(k, n, FALSE, FALSE, NULL, NULL, 100)

HtmlItems ==
    UNION {{NormalContainer(k), SaleContainer(k)} : k \in TrackedIds}
    \cup {HiddenContainer("p1"), HiddenSaleContainer("p1"),
          OffTopicContainer("p1"), SmallSaleContainer("p1"),
          NoPriceContainer("p1")}

ApiItems ==
    {Product("p1", "Trail Runner", NULL, ABSENT, 20, TRUE),
     Product("p1", "Trail Runner", 80, NULL, 20, TRUE)}

\* BaseScraper.calculate_discount, in whole percent
calculate_discount(original_price, sale_price) ==
    IF original_price = NULL \/ sale_price = NULL
       \/ original_price <= 0 \/ sale_price = 0
    THEN 0
    ELSE ((original_price - sale_price) * 100) \div original_price

\* BaseScraper.calculate_discount with its rounding: the result in hundredths
\* of a percent, round(discount, 2) taking the nearest hundredth.  `not x` is
\* true of None and of 0.
calculate_discount_rounded(original_price, sale_price) ==
    IF original_price = NULL \/ original_price = 0
       \/ sale_price = NULL \/ sale_price = 0
       \/ original_price <= 0
    THEN 0
    ELSE (2 * (original_price - sale_price) * 10000 + original_price)
             \div (2 * original_price)

\* ---- BaseScraper.extract_price ---------------------------------------------
Digits == <<"0", "1", "2", "3", "4", "5", "6", "7", "8", "9">>

is_digit(ch) == \E i \in 1 .. 10 : Digits[i] = ch

\* int(ch) of a digit character
digit_value(ch) == (CHOOSE i \in 1 .. 10 : Digits[i] = ch) - 1

\* a decimal value: units / 10^places, without trailing zeros after the
\* point (float("1.50") == float("1.5")); NoValue is Python's None
NoValue == [units |-> NULL, places |-> 0]

RECURSIVE reduced(_, _)
reduced(units, places) ==
    IF places > 0 /\ units % 10 = 0 THEN reduced(units \div 10, places - 1)
    ELSE [units |-> units, places |-> places]

\* re.sub(r'[^\d.,]', '', price_str)
price_chars(text) ==
    SelectSeq(text, LAMBDA ch : is_digit(ch) \/ ch = "." \/ ch = ",")

\* price_str.replace(',', '')
without_commas(text) == SelectSeq(text, LAMBDA ch : ch # ",")

\* float(price_str) of a string of digits and points, read from the left:
\* units collects the digits, places counts those after the point; a second
\* point, or no digit at all, is a ValueError
RECURSIVE to_float(_, _, _, _)
to_float(text, units, places, state) ==
    IF text = <<>>
    THEN IF state.digits THEN reduced(units, places) ELSE NoValue
    ELSE IF Head(text) = "."
         THEN IF state.point THEN NoValue
              ELSE to_float(Tail(text), units, places,
                            [state EXCEPT !.point = TRUE])
         ELSE to_float(Tail(text), units * 10 + digit_value(Head(text)),
                       IF state.point THEN places + 1 ELSE places,
                       [state EXCEPT !.digits = TRUE])

\* an extraction that leaves the commas in, so that float() rejects
\* "1,299.00" (rejected by C33)
extract_price_keeps_commas(price_str) ==
    IF price_str = <<>> \/ \E i \in 1 .. Len(price_chars(price_str)) :
                              price_chars(price_str)[i] = ","
    THEN NoValue
    ELSE to_float(price_chars(price_str), 0, 0,
                  [point |-> FALSE, digits |-> FALSE])

\* BaseScraper.extract_price(price_str), price_str as its characters
extract_price(price_str) ==
    IF price_str = <<>> THEN NoValue
    ELSE to_float(without_commas(price_chars(price_str)), 0, 0,
                  [point |-> FALSE, digits |-> FALSE])

\* BaseScraper.is_price_hidden(container)
is_price_hidden(c) == c.hidden_text

\* `if current_price:` / `if not current_price:` on an extracted price: None
\* and 0.0 are both falsy
price_found(p) == p # NULL /\ p # 0

\* container.get('data-sale-price'), elif container.get('data-price')
data_attribute_price(c) ==
    IF c.data_sale_price # NULL THEN c.data_sale_price ELSE c.data_price

\* a price extraction that looks at the generic price element first
\* (rejected by C30)
extracted_current_generic_first(c) ==
    IF price_found(c.price) THEN c.price
    ELSE IF price_found(c.sale_price) THEN c.sale_price
    ELSE IF price_found(data_attribute_price(c)) THEN data_attribute_price(c)
    ELSE NULL

\* DicksScraper.parse_listing_page, the price extraction of one container:
\* the sale-price elements, else the data attributes, else the generic price
\* elements; NULL when none of them gives a price
extracted_current(c) ==
    IF price_found(c.sale_price) THEN c.sale_price
    ELSE IF price_found(data_attribute_price(c)) THEN data_attribute_price(c)
    ELSE IF price_found(c.price) THEN c.price
    ELSE NULL

\* the regular-price element, else the current price
extracted_original(c) ==
    IF c.regular_price # NULL THEN c.regular_price ELSE extracted_current(c)

\* does the loop body append a listing for the container
html_emits(c) ==
    /\ c.name # ""
    /\ is_price_hidden(c) \/ extracted_current(c) # NULL

\* a hidden-price branch that still reads the sale marker (rejected by C17)
html_listing_hidden_sale(c) ==
    IF is_price_hidden(c)
    THEN Listing(c.product_id, c.name, NULL, NULL, 0, c.sale_marker, TRUE, TRUE)
    ELSE LET cur == extracted_current(c)
             orig == extracted_original(c)
             sale == c.sale_marker \/ orig > cur
         IN Listing(c.product_id, c.name, cur, orig,
                    IF sale THEN calculate_discount(orig, cur) ELSE 0,
                    sale, FALSE, FALSE)

\* the listing the loop body appends
html_listing(c) ==
    IF is_price_hidden(c)
    THEN Listing(c.product_id, c.name, NULL, NULL, 0, FALSE, TRUE, TRUE)
    ELSE LET cur == extracted_current(c)
             orig == extracted_original(c)
             sale == c.sale_marker \/ orig > cur
         IN Listing(c.product_id, c.name, cur, orig,
                    IF sale THEN calculate_discount(orig, cur) ELSE 0,
                    sale, FALSE, FALSE)

\* APIScraperExample.parse_listing_page, the dict built for one product; the
\* keys price_hidden and requires_manual_review are not set and upsert_shoe
\* reads them as False
api_listing(c) ==
    Listing(c.product_id, c.name, c.price,
            IF c.original_price = ABSENT THEN c.price ELSE c.original_price,
            IF c.discount_percentage = ABSENT THEN 0 ELSE c.discount_percentage,
            c.on_sale, FALSE, FALSE)

\* the product ids a site uses and the variant suffixes its containers may
\* append to them
ProductIds == {"p1", "p2", "p3"}
VariantSuffixes == {"", "?red"}

\* a deduplication on the product_id as it stands (rejected by C28)
whole_id(product_id) == product_id

\* shoe['product_id'].split('?')[0]: the id up to its first '?'
base_id(product_id) ==
    CHOOSE b \in ProductIds :
        \E v \in VariantSuffixes : product_id = b \o v

\* the deduplication by product_id that ends DicksScraper.parse_listing_page
RECURSIVE unique_shoes(_, _)
unique_shoes(ls, seen_ids) ==
    IF ls = <<>> THEN <<>>
    ELSE IF base_id(Head(ls).product_id) \in seen_ids
         THEN unique_shoes(Tail(ls), seen_ids)
         ELSE <<Head(ls)>>
              \o unique_shoes(Tail(ls),
                              seen_ids \cup {base_id(Head(ls).product_id)})

\* the count of the closing log line: len(shoes) - len(unique_shoes)
duplicates_removed(ls) == Len(ls) - Len(unique_shoes(ls, {}))

RECURSIVE listings_of(_)
listings_of(items) ==
    IF items = <<>> THEN <<>>
    ELSE LET c == Head(items)
         IN IF c.kind = "api" THEN <<api_listing(c)>> \o listings_of(Tail(items))
            ELSE IF html_emits(c)
                 THEN <<html_listing(c)>> \o listings_of(Tail(items))
                 ELSE listings_of(Tail(items))

\* parse_listing_page(soup, url), from the product containers the selector
\* chain settled on (or the products of the JSON response)
parse_listing_page(items) ==
    IF items # <<>> /\ Head(items).kind = "api"
    THEN listings_of(items)
    ELSE unique_shoes(listings_of(items), {})

\* the number of entries of product_selectors
NumSelectors == 6

\* a selector chain that collects the containers of every selector
\* (rejected by C29)
RECURSIVE all_containers(_)
all_containers(soup) ==
    IF soup = <<>> THEN <<>> ELSE Head(soup) \o all_containers(Tail(soup))

\* the loop over product_selectors: soup[i] is what soup.select() returns
\* for the i-th selector; the first non-empty result is taken
RECURSIVE product_containers(_)
product_containers(soup) ==
    IF soup = <<>> THEN <<>>
    ELSE IF Head(soup) # <<>> THEN Head(soup)
         ELSE product_containers(Tail(soup))

\* the sequences of up to n items of S
PagesOf(S, n) == UNION {[1 .. m -> S] : m \in 0 .. n}

\* what fetch_page can return: an HTML listing page or a JSON response
Pages == PagesOf(HtmlItems, MaxPage) \cup PagesOf(ApiItems, MaxPage)

\* the listings the scrapers can emit
Listings == UNION {{parse_listing_page(pg)[i] :
                       i \in 1 .. Len(parse_listing_page(pg))} : pg \in Pages}

VARIABLES
    shoes,            \* table shoes as the connection sees it: product_id -> row
    price_history,    \* table price_history, row id = index
    sale_alerts,      \* table sale_alerts, row id = index
    committed,        \* the three tables as committed on disk
    now,              \* logical clock read by datetime.now() / CURRENT_TIMESTAMP
    method,           \* Notifier.method
    pc,               \* position of run_check
    cycle,            \* number of run_check calls started
    scraper,          \* index of the scraper the for loop is at
    url_i,            \* index of the search url scrape() is at
    page,             \* scrape(): the items of the page fetched last
    all_shoes,        \* scrape(): listings collected so far
    run_shoes,        \* run_check: the list scrape() returned
    shoe_i,           \* run_check: index into run_shoes
    new_sales,        \* run_check: len(new_sales) of the current scraper
    all_new_sales,    \* run_check: len(all_new_sales)
    unsent_alerts,    \* run_check: ids returned by get_unsent_alerts()
    sent_count,       \* run_check: value returned by send_alerts()
    mark_i,           \* run_check: index into unsent_alerts[:sent_count]
    manual_review_items, \* run_check: product ids from get_manual_review_items()
    summary,          \* arguments of the last send_summary call
    result,           \* outcome of the last run_check call
    calls,            \* log of the upsert_shoe calls: listing, time, outcome
    visited,          \* log of the steps run_check has taken in this cycle
    retry,            \* alerts handed to the Notifier in an earlier cycle
                      \* and not reported delivered so far
    reviewed,         \* log of the manual-review digests: <<cycle, product>>
    fetches           \* log of the fetch_page calls of the running cycle

vars == <<shoes, price_history, sale_alerts, committed, now, method, pc, cycle,
          scraper, url_i, page, all_shoes, run_shoes, shoe_i, new_sales,
          all_new_sales, unsent_alerts, sent_count, mark_i,
          manual_review_items, summary, result, calls, visited, retry,
          reviewed, fetches>>

dbvars == <<shoes, price_history, sale_alerts, committed, now>>
loopvars == <<scraper, url_i, page, all_shoes, run_shoes, shoe_i, new_sales,
              all_new_sales>>
alertvars == <<unsent_alerts, sent_count, mark_i>>
outvars == <<manual_review_items, summary, result>>
logvars == <<calls, visited, retry, reviewed, fetches>>

\* ---- Database (src/src/database.py) --------------------------------------

\* the tables as self.conn sees them
Conn == [shoes |-> shoes, price_history |-> price_history,
         sale_alerts |-> sale_alerts]

\* sqlite3.Connection.in_transaction: writes were issued and not committed
in_transaction == committed # Conn

\* a detection that looks at stored shoes only, so that a product's first
\* listing never counts as a new sale (rejected by C9)
is_new_sale_stored_only(sh, l) ==
    IF l.product_id \in DOMAIN sh
    THEN l.is_on_sale /\ ~sh[l.product_id].is_on_sale
    ELSE FALSE

\* upsert_shoe, lines 82-90 and 123: the value of is_new_sale
is_new_sale(sh, l) ==
    IF l.product_id \in DOMAIN sh
    THEN l.is_on_sale /\ ~sh[l.product_id].is_on_sale
    ELSE l.is_on_sale

\* an UPDATE without the requires_manual_review column: the flag of a
\* stored shoe stays as it is, a manual clear included (rejected by C38)
shoe_row_keeps_clear(sh, l, t) ==
    [product_id |-> l.product_id, name |-> l.name,
     current_price |-> l.current_price, original_price |-> l.original_price,
     discount_percentage |-> l.discount_percentage,
     is_on_sale |-> l.is_on_sale, price_hidden |-> l.price_hidden,
     requires_manual_review |->
         IF l.product_id \in DOMAIN sh
         THEN sh[l.product_id].requires_manual_review
         ELSE l.requires_manual_review,
     last_checked |-> t,
     first_seen |-> IF l.product_id \in DOMAIN sh
                    THEN sh[l.product_id].first_seen ELSE t,
     website |-> IF l.product_id \in DOMAIN sh
                 THEN sh[l.product_id].website ELSE l.website]

\* an UPDATE that leaves requires_manual_review set once it is set
\* (rejected by C16)
shoe_row_keeps_review(sh, l, t) ==
    [product_id |-> l.product_id, name |-> l.name,
     current_price |-> l.current_price, original_price |-> l.original_price,
     discount_percentage |-> l.discount_percentage,
     is_on_sale |-> l.is_on_sale, price_hidden |-> l.price_hidden,
     requires_manual_review |->
         \/ l.requires_manual_review
         \/ (l.product_id \in DOMAIN sh
             /\ sh[l.product_id].requires_manual_review),
     last_checked |-> t,
     first_seen |-> IF l.product_id \in DOMAIN sh
                    THEN sh[l.product_id].first_seen ELSE t,
     website |-> IF l.product_id \in DOMAIN sh
                 THEN sh[l.product_id].website ELSE l.website]

\* the row the UPDATE (existing shoe) or the INSERT (new shoe) leaves
shoe_row(sh, l, t) ==
    [product_id |-> l.product_id, name |-> l.name,
     current_price |-> l.current_price, original_price |-> l.original_price,
     discount_percentage |-> l.discount_percentage,
     is_on_sale |-> l.is_on_sale, price_hidden |-> l.price_hidden,
     requires_manual_review |-> l.requires_manual_review,
     last_checked |-> t,
     first_seen |-> IF l.product_id \in DOMAIN sh
                    THEN sh[l.product_id].first_seen ELSE t,
     website |-> IF l.product_id \in DOMAIN sh
                 THEN sh[l.product_id].website ELSE l.website]

\* an UPDATE that merges: original_price = COALESCE(?, original_price)
\* (rejected by C19)
write_shoe_merge(sh, l, t) ==
    [k \in DOMAIN sh \cup {l.product_id} |->
        IF k # l.product_id THEN sh[k]
        ELSE IF k \in DOMAIN sh /\ l.original_price = NULL
             THEN [shoe_row(sh, l, t) EXCEPT
                      !.original_price = sh[k].original_price]
             ELSE shoe_row(sh, l, t)]

\* an UPDATE without its WHERE product_id = ? clause: every stored row takes
\* the listing's values (rejected by C39)
write_shoe_all_rows(sh, l, t) ==
    [k \in DOMAIN sh \cup {l.product_id} |->
        IF k = l.product_id \/ l.product_id \notin DOMAIN sh
        THEN IF k = l.product_id THEN shoe_row(sh, l, t) ELSE sh[k]
        ELSE [shoe_row(sh, l, t) EXCEPT !.product_id = k,
                                        !.first_seen = sh[k].first_seen,
                                        !.website = sh[k].website]]

\* the shoes table after the UPDATE or INSERT of upsert_shoe
write_shoe(sh, l, t) ==
    [k \in DOMAIN sh \cup {l.product_id} |->
        IF k = l.product_id THEN shoe_row(sh, l, t) ELSE sh[k]]

\* price_history.price is declared REAL NOT NULL: the INSERT of a NULL price
\* raises sqlite3.IntegrityError
price_accepted(price) == price # NULL

history_row(l, t) ==
    [product_id |-> l.product_id, price |-> l.current_price,
     was_on_sale |-> l.is_on_sale, recorded_at |-> t]

alert_row(l, t) ==
    [product_id |-> l.product_id, alert_sent |-> FALSE, alert_sent_at |-> NULL,
     sale_price |-> l.current_price, original_price |-> l.original_price,
     discount_percentage |-> l.discount_percentage, created_at |-> t]

\* an INSERT OR REPLACE keyed by product, which keeps one row per product
\* (rejected by C20)
replace_history(ph, l, t) ==
    SelectSeq(ph, LAMBDA r : r.product_id # l.product_id)
    \o <<history_row(l, t)>>

\* INSERT INTO price_history
add_history(ph, l, t) == Append(ph, history_row(l, t))

\* an upsert that also rewrites the prices of the product's alerts that are
\* still unsent (rejected by C21)
refresh_alerts(al, l, t, new) ==
    LET fresh == [i \in 1 .. Len(al) |->
                     IF al[i].product_id = l.product_id /\ ~al[i].alert_sent
                     THEN [al[i] EXCEPT
                              !.sale_price = l.current_price,
                              !.original_price = l.original_price,
                              !.discount_percentage = l.discount_percentage]
                     ELSE al[i]]
    IN IF new THEN Append(fresh, alert_row(l, t)) ELSE fresh

\* `if is_new_sale:` INSERT INTO sale_alerts; the rows already there are not
\* touched
add_alert(al, l, t, new) ==
    IF new THEN Append(al, alert_row(l, t)) ELSE al

\* upsert_shoe(shoe_data).  The shoe row is written first; the price_history
\* INSERT then either raises (the call ends there, nothing is committed or
\* rolled back, the shoe-row write stays in the open transaction) or the
\* alert row is added when is_new_sale and everything is committed.
upsert_raises(l) == ~price_accepted(l.current_price)

upsert_shoe(l) ==
    LET new == is_new_sale(shoes, l) IN
    /\ shoes' = write_shoe(shoes, l, now)
    /\ now' = now + 1
    /\ IF upsert_raises(l)
       THEN /\ UNCHANGED <<price_history, sale_alerts, committed>>
            /\ calls' = Append(calls, [listing |-> l, at |-> now,
                                       raised |-> TRUE, returned |-> FALSE,
                                       existed |-> l.product_id \in DOMAIN shoes])
       ELSE /\ price_history' = add_history(price_history, l, now)
            /\ sale_alerts' = add_alert(sale_alerts, l, now, new)
            /\ committed' = [shoes |-> shoes', price_history |-> price_history',
                             sale_alerts |-> sale_alerts']
            /\ calls' = Append(calls, [listing |-> l, at |-> now,
                                       raised |-> FALSE, returned |-> new,
                                       existed |-> l.product_id \in DOMAIN shoes])

\* ORDER BY created_at DESC over a set of alert ids
RECURSIVE newest_first(_, _)
newest_first(ids, al) ==
    IF ids = {} THEN <<>>
    ELSE LET m == CHOOSE i \in ids :
                     \A j \in ids : al[j].created_at <= al[i].created_at
         IN <<m>> \o newest_first(ids \ {m}, al)

\* a query without the alert_sent = 0 condition (rejected by C6)
get_all_alerts(al, sh) ==
    newest_first({i \in 1 .. Len(al) : al[i].product_id \in DOMAIN sh}, al)

\* get_unsent_alerts(): ids of the alerts with alert_sent = 0 whose shoe row
\* exists (JOIN shoes), most recent first
get_unsent_alerts(al, sh) ==
    newest_first({i \in 1 .. Len(al) :
                     ~al[i].alert_sent /\ al[i].product_id \in DOMAIN sh}, al)

\* the dict get_unsent_alerts returns for alert i: SELECT sa.*, s.name, ...
\* (the prices are columns of sale_alerts, the name is the joined shoe's)
alert_dict(al, sh, i) ==
    [id |-> i, product_id |-> al[i].product_id,
     sale_price |-> al[i].sale_price,
     original_price |-> al[i].original_price,
     discount_percentage |-> al[i].discount_percentage,
     name |-> sh[al[i].product_id].name]

\* mark_alert_sent(alert_id): UPDATE ... WHERE id = ?, then commit
mark_alert_sent(id) ==
    /\ sale_alerts' = [i \in 1 .. Len(sale_alerts) |->
                          IF i = id
                          THEN [sale_alerts[i] EXCEPT !.alert_sent = TRUE,
                                                      !.alert_sent_at = now]
                          ELSE sale_alerts[i]]
    /\ committed' = [shoes |-> shoes, price_history |-> price_history,
                     sale_alerts |-> sale_alerts']
    /\ now' = now + 1
    /\ UNCHANGED <<shoes, price_history>>

\* ORDER BY last_checked DESC over a set of product ids
RECURSIVE last_checked_first(_, _)
last_checked_first(ks, sh) ==
    IF ks = {} THEN <<>>
    ELSE LET m == CHOOSE k \in ks :
                     \A j \in ks : sh[j].last_checked <= sh[k].last_checked
         IN <<m>> \o last_checked_first(ks \ {m}, sh)

\* a digest deduplicated across cycles: shoes already reported are left out
\* (rejected by C14)
get_unreported_review_items(sh) ==
    last_checked_first({k \in DOMAIN sh :
                           /\ sh[k].requires_manual_review
                           /\ \A e \in reviewed : e[2] # k}, sh)

\* get_manual_review_items(): shoes with requires_manual_review = 1
get_manual_review_items(sh) ==
    last_checked_first({k \in DOMAIN sh : sh[k].requires_manual_review}, sh)

\* mark_manual_review_done(product_id): UPDATE ... then commit
mark_manual_review_done(k) ==
    /\ shoes' = [x \in DOMAIN shoes |->
                    IF x = k
                    THEN [shoes[x] EXCEPT !.requires_manual_review = FALSE]
                    ELSE shoes[x]]
    /\ committed' = [shoes |-> shoes', price_history |-> price_history,
                     sale_alerts |-> sale_alerts]
    /\ UNCHANGED <<price_history, sale_alerts, now>>

RECURSIVE sum_discount(_, _)
sum_discount(ks, sh) ==
    IF ks = {} THEN 0
    ELSE LET k == CHOOSE x \in ks : TRUE
         IN sh[k].discount_percentage + sum_discount(ks \ {k}, sh)

\* statistics whose average runs over every shoe, without the WHERE
\* is_on_sale = 1 of the third query (rejected by C37)
get_stats_all_shoes(sh) ==
    LET on == {k \in DOMAIN sh : sh[k].is_on_sale}
        n == Cardinality(DOMAIN sh)
    IN [total_shoes |-> n,
        shoes_on_sale |-> Cardinality(on),
        average_discount |->
            IF n = 0 THEN 0
            ELSE (200 * sum_discount(DOMAIN sh, sh) + n) \div (2 * n)]

\* get_stats(): the average is kept in hundredths of a percent
get_stats(sh) ==
    LET on == {k \in DOMAIN sh : sh[k].is_on_sale}
        n == Cardinality(on)
    IN [total_shoes |-> Cardinality(DOMAIN sh),
        shoes_on_sale |-> n,
        average_discount |->
            IF n = 0 THEN 0
            ELSE (200 * sum_discount(on, sh) + n) \div (2 * n)]

\* the rows of SELECT * FROM shoes WHERE is_on_sale = 1 ORDER BY
\* discount_percentage DESC, as product ids: every order of the on-sale
\* shoes with non-increasing discount (SQLite leaves the order of equal
\* discounts open)
sale_orders(sh) ==
    LET on == {k \in DOMAIN sh : sh[k].is_on_sale}
    IN {f \in [1 .. Cardinality(on) -> on] :
          /\ \A i, j \in DOMAIN f : i # j => f[i] # f[j]
          /\ \A i, j \in DOMAIN f :
                i < j => sh[f[i]].discount_percentage
                             >= sh[f[j]].discount_percentage}

\* the first n rows of a result
first_rows(rows, n) == SubSeq(rows, 1, IF n < Len(rows) THEN n ELSE Len(rows))

\* get_active_sales(limit): `if limit:` appends LIMIT for a limit that is
\* neither None nor 0; the results the query can give
get_active_sales(sh, limit) ==
    {IF limit = NULL \/ limit = 0 THEN f ELSE first_rows(f, limit) :
        f \in sale_orders(sh)}

\* ---- BaseScraper (src/src/scrapers/base_scraper.py) ----------------------

\* filter_shoes(shoes): keyword match, and the minimum discount when on sale
keeps(l) ==
    /\ name_matches(l.name)
    /\ (l.is_on_sale => l.discount_percentage >= MIN_DISCOUNT_PERCENTAGE)

filter_shoes(ls) == SelectSeq(ls, keeps)

\* ---- Notifier (src/src/notifier.py) --------------------------------------

\* the values send_alerts(alerts) can return: 0 for no alerts; the console
\* prints all of them; the email path returns 0 when the configuration is
\* missing or the SMTP exchange raised
\* the bodies format every alert with f"{alert['original_price']:.2f}",
\* f"{alert['sale_price']:.2f}" and f"{alert['discount_percentage']:.1f}",
\* which raise TypeError on None
formattable(al, alerts) ==
    \A j \in 1 .. Len(alerts) :
        /\ al[alerts[j]].original_price # NULL
        /\ al[alerts[j]].sale_price # NULL
        /\ al[alerts[j]].discount_percentage # NULL

\* _send_console_alerts has no try block: the TypeError leaves send_alerts;
\* _send_email_alerts builds the bodies inside its try block and returns 0
send_alerts_raises(m, alerts, al) ==
    /\ alerts # <<>>
    /\ m # "email"
    /\ ~formattable(al, alerts)

send_alerts(m, alerts, al) ==
    IF alerts = <<>> THEN {0}
    ELSE IF m = "email"
         THEN IF formattable(al, alerts) THEN {0, Len(alerts)} ELSE {0}
         ELSE {Len(alerts)}

\* ---- ShoeTracker.run_check (src/src/shoe_tracker.py) ---------------------

NoSummary == [sent |-> FALSE, stats |-> get_stats(<<>>), sales_count |-> 0,
              manual_review_count |-> 0]
NoResult == [returned |-> FALSE, raised |-> FALSE, new_sales |-> 0,
             total_shoes_checked |-> 0]

\* upserts still allowed in this behaviour, counting the listings already
\* collected by the running scrape
Budget == MaxUpserts - Len(calls) - Len(all_shoes)

\* the scrapers whose close() ran in this cycle
closed == {s \in Scrapers : <<s, "close">> \in visited}

\* the log entry of one fetch_page(url) call: the target, whether close() of
\* its scraper ran earlier in this cycle, and whether the Database connection
\* had writes that were neither committed nor rolled back
fetch_event(s, u) ==
    [scraper |-> s, url |-> u, after_close |-> s \in closed,
     in_transaction |-> in_transaction]

\* the fetch_page calls of one whole scrape() of scraper s
scrape_fetches(s) == [u \in get_search_urls(s) |-> fetch_event(s, u)]

\* a loop that gives up the following url as well after a url failed
\* (rejected by C26)
skip_two_targets(u) == u + 2

\* `if soup:` is false or the except clause of scrape() ran: nothing is
\* added for this url and the for loop takes the next url
skip_target(u) == u + 1

Init ==
    /\ shoes = <<>>
    /\ price_history = <<>>
    /\ sale_alerts = <<>>
    /\ committed = [shoes |-> <<>>, price_history |-> <<>>, sale_alerts |-> <<>>]
    /\ now = 1
    /\ method \in {"console", "email"}
    /\ pc = "idle"
    /\ cycle = 0
    /\ scraper = 1
    /\ url_i = 1
    /\ page = <<>>
    /\ all_shoes = <<>>
    /\ run_shoes = <<>>
    /\ shoe_i = 1
    /\ new_sales = 0
    /\ all_new_sales = 0
    /\ unsent_alerts = <<>>
    /\ sent_count = 0
    /\ mark_i = 1
    /\ manual_review_items = <<>>
    /\ summary = NoSummary
    /\ result = NoResult
    /\ calls = <<>>
    /\ visited = {}
    /\ retry = {}
    /\ reviewed = {}
    /\ fetches = <<>>

\* the entry the log of a cycle starts with: the number of alert rows stored
\* when run_check was entered
cycle_start(al) == <<Len(al), "start">>

\* run_check is entered: all_new_sales = [], the for loop takes the first scraper
StartCycle ==
    /\ pc = "idle"
    /\ cycle < MaxCycles
    /\ cycle' = cycle + 1
    /\ pc' = "scrape"
    /\ scraper' = 1
    /\ url_i' = 1
    /\ page' = <<>>
    /\ all_shoes' = <<>>
    /\ run_shoes' = <<>>
    /\ shoe_i' = 1
    /\ new_sales' = 0
    /\ all_new_sales' = 0
    /\ unsent_alerts' = <<>>
    /\ sent_count' = 0
    /\ mark_i' = 1
    /\ manual_review_items' = <<>>
    /\ summary' = NoSummary
    /\ result' = NoResult
    /\ visited' = {cycle_start(sale_alerts)}
    /\ fetches' = <<>>
    /\ UNCHANGED <<dbvars, method, calls, retry, reviewed>>

\* scrape(): fetch_page returned None (request error), the url is skipped
FetchFail ==
    /\ pc = "scrape"
    /\ url_i \in get_search_urls(scraper)
    /\ url_i' = skip_target(url_i)
    /\ page' = <<>>
    /\ visited' = visited \cup {<<scraper, "scrape">>}
    /\ fetches' = Append(fetches, fetch_event(scraper, url_i))
    /\ UNCHANGED <<dbvars, method, pc, cycle, scraper, all_shoes, run_shoes,
                   shoe_i, new_sales, all_new_sales, alertvars, outvars,
                   calls, retry, reviewed>>

\* scrape(): the page was fetched and parse_listing_page returned its listings
FetchParse ==
    /\ pc = "scrape"
    /\ url_i \in get_search_urls(scraper)
    /\ \E soup \in Pages :
         /\ Len(soup) <= Budget
         /\ page' = soup
         /\ all_shoes' = all_shoes \o parse_listing_page(soup)
    /\ url_i' = url_i + 1
    /\ visited' = visited \cup {<<scraper, "scrape">>}
    /\ fetches' = Append(fetches, fetch_event(scraper, url_i))
    /\ UNCHANGED <<dbvars, method, pc, cycle, scraper, run_shoes, shoe_i,
                   new_sales, all_new_sales, alertvars, outvars, calls,
                   retry, reviewed>>

\* scrape(): the page was fetched, parse_listing_page raised, the exception is
\* logged and the url skipped
ParseError ==
    /\ pc = "scrape"
    /\ url_i \in get_search_urls(scraper)
    /\ url_i' = skip_target(url_i)
    /\ page' = <<>>
    /\ visited' = visited \cup {<<scraper, "scrape">>}
    /\ fetches' = Append(fetches, fetch_event(scraper, url_i))
    /\ UNCHANGED <<dbvars, method, pc, cycle, scraper, all_shoes, run_shoes,
                   shoe_i, new_sales, all_new_sales, alertvars, outvars,
                   calls, retry, reviewed>>

\* scrape() returns filter_shoes(all_shoes); run_check starts the upsert loop
ScrapeReturn ==
    /\ pc = "scrape"
    /\ url_i \notin get_search_urls(scraper)
    /\ run_shoes' = filter_shoes(all_shoes)
    /\ page' = <<>>
    /\ all_shoes' = <<>>
    /\ shoe_i' = 1
    /\ new_sales' = 0
    /\ pc' = "upsert"
    /\ visited' = visited \cup {<<scraper, "scrape">>}
    /\ UNCHANGED <<dbvars, method, cycle, scraper, url_i, all_new_sales,
                   alertvars, outvars, calls, retry, reviewed,
                   fetches>>

\* scrape() itself raised: before its first fetch (get_search_urls, an
\* overriding scrape) or after its last one (filter_shoes on a malformed
\* listing); fetch_page and the parse step catch their own exceptions.
\* Control goes to the except clause of run_check.
ScrapeRaise ==
    /\ pc = "scrape"
    /\ url_i = 1 \/ url_i \notin get_search_urls(scraper)
    /\ pc' = "except"
    /\ page' = <<>>
    /\ all_shoes' = <<>>
    /\ visited' = visited \cup {<<scraper, "scrape">>}
    /\ UNCHANGED <<dbvars, method, cycle, scraper, url_i, run_shoes, shoe_i,
                   new_sales, all_new_sales, alertvars, outvars, calls, retry, reviewed,
                   fetches>>

\* one iteration of `for shoe in shoes`: upsert_shoe, and new_sales.append
\* when it returned True; an exception leaves the try block
UpsertNext ==
    /\ pc = "upsert"
    /\ shoe_i <= Len(run_shoes)
    /\ upsert_shoe(run_shoes[shoe_i])
    /\ IF upsert_raises(run_shoes[shoe_i])
       THEN /\ pc' = "except"
            /\ UNCHANGED <<shoe_i, new_sales>>
       ELSE /\ pc' = pc
            /\ shoe_i' = shoe_i + 1
            /\ new_sales' = IF is_new_sale(shoes, run_shoes[shoe_i])
                            THEN new_sales + 1 ELSE new_sales
    /\ visited' = visited \cup {<<scraper, "upsert">>}
    /\ UNCHANGED <<method, cycle, scraper, url_i, page, all_shoes, run_shoes,
                   all_new_sales, alertvars, outvars, retry, reviewed,
                   fetches>>

\* the upsert loop ended: all_new_sales.extend(new_sales)
UpsertsDone ==
    /\ pc = "upsert"
    /\ shoe_i > Len(run_shoes)
    /\ all_new_sales' = all_new_sales + new_sales
    /\ pc' = "close"
    /\ visited' = visited \cup {<<scraper, "upsert">>}
    /\ UNCHANGED <<dbvars, method, cycle, scraper, url_i, page, all_shoes,
                   run_shoes, shoe_i, new_sales, alertvars, outvars, calls,
                   retry, reviewed,
                   fetches>>

\* an except clause that leaves run_check instead of falling through to the
\* finally block and the next scraper (rejected by C10)
except_returns == "idle"

\* where the `except Exception` clause of run_check leads: the error is
\* logged and control falls into the finally clause
except_continues == "close"

\* except Exception as e: self.logger.error(...)
LogError ==
    /\ pc = "except"
    /\ pc' = except_continues
    /\ visited' = visited \cup {<<scraper, "except">>}
    /\ UNCHANGED <<dbvars, method, cycle, loopvars, alertvars, outvars,
                   calls, retry, reviewed,
                   fetches>>

\* a loop whose body holds the notification block, so that alerts go out
\* after the first scraper (rejected by C13)
first_scraper(s) == s >= 1

\* is s the last element of self.scrapers, after which the for loop ends
last_scraper(s) == s >= NumScrapers

\* finally: scraper.close() (its own exceptions are swallowed); the for loop
\* takes the next scraper or ends
CloseScraper ==
    /\ pc = "close"
    /\ visited' = visited \cup {<<scraper, "close">>}
    /\ run_shoes' = <<>>
    /\ shoe_i' = 1
    /\ new_sales' = 0
    /\ url_i' = 1
    /\ IF ~last_scraper(scraper)
       THEN /\ scraper' = scraper + 1
            /\ pc' = "scrape"
       ELSE /\ scraper' = scraper
            /\ pc' = "alerts"
    /\ UNCHANGED <<dbvars, method, cycle, page, all_shoes, all_new_sales,
                   alertvars, outvars, calls, retry, reviewed,
                   fetches>>

\* `if all_new_sales:` is false, the notification block is skipped
SkipAlerts ==
    /\ pc = "alerts"
    /\ all_new_sales = 0
    /\ pc' = "review"
    /\ visited' = visited \cup {<<0, "alerts">>}
    /\ UNCHANGED <<dbvars, method, cycle, loopvars, alertvars, outvars,
                   calls, retry, reviewed,
                   fetches>>

\* unsent_alerts = get_unsent_alerts(); sent_count = send_alerts(unsent_alerts)
SendAlerts ==
    /\ pc = "alerts"
    /\ all_new_sales > 0
    /\ unsent_alerts' = get_unsent_alerts(sale_alerts, shoes)
    /\ ~send_alerts_raises(method, unsent_alerts', sale_alerts)
    /\ sent_count' \in send_alerts(method, unsent_alerts', sale_alerts)
    /\ mark_i' = 1
    /\ pc' = "mark"
    /\ visited' = visited \cup {<<0, "alerts">>}
    /\ UNCHANGED <<dbvars, method, cycle, loopvars, outvars, calls, retry,
                   reviewed,
                   fetches>>

\* send_alerts raised: nothing in run_check catches it, run_check raises to
\* its caller before the manual-review and summary steps
SendAlertsRaise ==
    /\ pc = "alerts"
    /\ all_new_sales > 0
    /\ unsent_alerts' = get_unsent_alerts(sale_alerts, shoes)
    /\ send_alerts_raises(method, unsent_alerts', sale_alerts)
    /\ result' = [NoResult EXCEPT !.raised = TRUE]
    /\ pc' = "idle"
    /\ retry' = {i \in 1 .. Len(sale_alerts) :
                    /\ ~sale_alerts[i].alert_sent
                    /\ \/ i \in retry
                       \/ \E j \in 1 .. Len(unsent_alerts') :
                              unsent_alerts'[j] = i}
    /\ visited' = visited \cup {<<0, "alerts">>, <<0, "raise">>}
    /\ fetches' = <<>>
    /\ UNCHANGED <<dbvars, method, cycle, loopvars, sent_count, mark_i,
                   manual_review_items, summary, calls, reviewed>>

\* a loop over the whole list instead of its first n entries (rejected by C8)
to_mark_all(alerts, n) == alerts

\* the alerts run_check marks: unsent_alerts[:sent_count]
to_mark(alerts, n) == SubSeq(alerts, 1, n)

\* one iteration of `for alert in unsent_alerts[:sent_count]`
MarkAlertSent ==
    /\ pc = "mark"
    /\ mark_i <= Len(to_mark(unsent_alerts, sent_count))
    /\ mark_alert_sent(to_mark(unsent_alerts, sent_count)[mark_i])
    /\ mark_i' = mark_i + 1
    /\ UNCHANGED <<method, pc, cycle, loopvars, unsent_alerts, sent_count,
                   outvars, logvars>>

MarkDone ==
    /\ pc = "mark"
    /\ mark_i > Len(to_mark(unsent_alerts, sent_count))
    /\ pc' = "review"
    /\ UNCHANGED <<dbvars, method, cycle, loopvars, alertvars, outvars,
                   logvars>>

\* manual_review_items = get_manual_review_items(), handed to
\* send_manual_review_alerts when not empty
Review ==
    /\ pc = "review"
    /\ manual_review_items' = get_manual_review_items(shoes)
    /\ reviewed' = reviewed \cup {<<cycle, manual_review_items'[j]>> :
                                     j \in 1 .. Len(manual_review_items')}
    /\ pc' = "summary"
    /\ visited' = visited \cup {<<0, "review">>}
    /\ UNCHANGED <<dbvars, method, cycle, loopvars, alertvars, summary, result,
                   calls, retry, fetches>>

\* stats = get_stats(); send_summary(stats, len(all_new_sales),
\* len(manual_review_items))
Summary ==
    /\ pc = "summary"
    /\ summary' = [sent |-> TRUE, stats |-> get_stats(shoes),
                   sales_count |-> all_new_sales,
                   manual_review_count |-> Len(manual_review_items)]
    /\ scraper' = 1
    /\ pc' = "result"
    /\ visited' = visited \cup {<<0, "summary">>}
    /\ UNCHANGED <<dbvars, method, cycle, url_i, page, all_shoes, run_shoes,
                   shoe_i, new_sales, all_new_sales, alertvars,
                   manual_review_items, result, calls, retry, reviewed,
                   fetches>>

\* the alerts that were handed to the Notifier and are still unsent when
\* run_check ends
undelivered ==
    {i \in 1 .. Len(sale_alerts) :
        /\ ~sale_alerts[i].alert_sent
        /\ \/ i \in retry
           \/ \E j \in 1 .. Len(unsent_alerts) : unsent_alerts[j] = i}

\* the return expression scrapes every scraper once more to count its
\* listings: sum(len(s.scrape()) for s in self.scrapers).  Each of these
\* scrape() calls fetches every search url of its scraper again; only the
\* length of the list it returns is used.
Rescrape ==
    /\ pc = "result"
    /\ ~result.returned
    /\ \E n \in 0 .. MaxRescrape :
         result' = [result EXCEPT
                      !.total_shoes_checked = @ + n,
                      !.returned = (scraper = NumScrapers),
                      !.new_sales = IF scraper = NumScrapers
                                    THEN all_new_sales ELSE @]
    /\ scraper' = IF scraper < NumScrapers THEN scraper + 1 ELSE scraper
    /\ fetches' = fetches \o scrape_fetches(scraper)
    /\ UNCHANGED <<dbvars, method, pc, cycle, url_i, page, all_shoes,
                   run_shoes, shoe_i, new_sales, all_new_sales, alertvars,
                   manual_review_items, summary, calls, visited, retry,
                   reviewed>>

\* a scrape() of the return expression raised: run_check raises to its caller
RescrapeRaise ==
    /\ pc = "result"
    /\ ~result.returned
    /\ result' = [NoResult EXCEPT !.raised = TRUE]
    /\ pc' = "idle"
    /\ retry' = undelivered
    /\ fetches' = <<>>
    /\ UNCHANGED <<dbvars, method, cycle, loopvars, alertvars,
                   manual_review_items, summary, calls, visited, reviewed>>

\* run_check returns its result dict
Return ==
    /\ pc = "result"
    /\ result.returned
    /\ pc' = "idle"
    /\ retry' = undelivered
    /\ fetches' = <<>>
    /\ UNCHANGED <<dbvars, method, cycle, loopvars, alertvars,
                   manual_review_items, summary, result, calls, visited,
                   reviewed>>

\* Database.mark_manual_review_done called between two cycles
MarkManualReviewDone ==
    /\ pc = "idle"
    /\ \E k \in DOMAIN shoes :
         /\ shoes[k].requires_manual_review
         /\ mark_manual_review_done(k)
    /\ UNCHANGED <<method, pc, cycle, loopvars, alertvars, outvars, logvars>>

Next ==
    \/ StartCycle
    \/ FetchFail
    \/ FetchParse
    \/ ParseError
    \/ ScrapeReturn
    \/ ScrapeRaise
    \/ UpsertNext
    \/ UpsertsDone
    \/ LogError
    \/ CloseScraper
    \/ SkipAlerts
    \/ SendAlerts
    \/ SendAlertsRaise
    \/ MarkAlertSent
    \/ MarkDone
    \/ Review
    \/ Summary
    \/ Rescrape
    \/ RescrapeRaise
    \/ Return
    \/ MarkManualReviewDone

Spec == Init /\ [][Next]_vars

TypeOK ==
    /\ pc \in {"idle", "scrape", "upsert", "except", "close", "alerts",
               "mark", "review", "summary", "result"}
    /\ Len(calls) <= MaxUpserts
    /\ cycle \in 0 .. MaxCycles
    /\ scraper \in Scrapers
\* ---- helpers for the claims ----------------------------------------------

\* the indices of the upsert_shoe calls made for product k, in call order
calls_of(k) == {j \in 1 .. Len(calls) : calls[j].listing.product_id = k}

\* the call made for the same product just before call j, or 0
previous_call(j) ==
    LET before == {i \in calls_of(calls[j].listing.product_id) : i < j}
    IN IF before = {} THEN 0
       ELSE CHOOSE i \in before : \A x \in before : x <= i

\* the false->true edges in the is_on_sale values of the calls made for k,
\* a product not yet stored counting as false
sale_edges(k) ==
    {j \in calls_of(k) :
        /\ calls[j].listing.is_on_sale
        /\ \/ previous_call(j) = 0
           \/ ~calls[previous_call(j)].listing.is_on_sale}

alerts_of(al, k) == {i \in 1 .. Len(al) : al[i].product_id = k}
history_of(ph, k) == {i \in 1 .. Len(ph) : ph[i].product_id = k}

\* the rows a call made at time t left in a table
history_at(ph, t) == {i \in 1 .. Len(ph) : ph[i].recorded_at = t}
alerts_at(al, t) == {i \in 1 .. Len(al) : al[i].created_at = t}

\* ---- C1 ------------------------------------------------------------------
\* C1: for two consecutive upserts L1, L2 of one product key the second call
\* returns True exactly when L1.is_on_sale is false and L2.is_on_sale is true,
\* and the first upsert of a key that is not stored returns the listing's
\* is_on_sale.
C1_ReturnIsSaleEdge ==
    \A j \in 1 .. Len(calls) :
        IF previous_call(j) = 0
        THEN /\ ~calls[j].raised
             /\ calls[j].returned = calls[j].listing.is_on_sale
        ELSE (~calls[j].raised /\ calls[j].returned)
             <=> (/\ ~calls[previous_call(j)].listing.is_on_sale
                  /\ calls[j].listing.is_on_sale)

\* ---- C2 ------------------------------------------------------------------
\* C2: after any sequence of upsert_shoe calls the number of sale_alerts rows
\* of every product equals the number of false->true edges in the is_on_sale
\* values applied to it.
C2_AlertPerSaleEdge ==
    \A k \in TrackedIds :
        Cardinality(alerts_of(sale_alerts, k)) = Cardinality(sale_edges(k))

\* ---- C3 ------------------------------------------------------------------
\* the committed shoes table holds a write of call c: the row it inserted
\* (first_seen) or the values it set (last_checked)
shoe_write_committed(c) ==
    /\ c.listing.product_id \in DOMAIN committed.shoes
    /\ \/ committed.shoes[c.listing.product_id].last_checked = c.at
       \/ committed.shoes[c.listing.product_id].first_seen = c.at

\* C3: in every committed state the shoe-row write, the price-history row and
\* (for a new sale) the alert row of one upsert_shoe call are all present or
\* all absent.
C3_UpsertAllOrNothing ==
    \A j \in 1 .. Len(calls) :
        LET c == calls[j]
            k == c.listing.product_id
            hist == history_at(committed.price_history, c.at) # {}
            alert == alerts_at(committed.sale_alerts, c.at) # {}
            new == c.listing.is_on_sale
                   /\ (previous_call(j) = 0
                       \/ ~calls[previous_call(j)].listing.is_on_sale)
        IN /\ shoe_write_committed(c) => hist
           /\ hist => /\ k \in DOMAIN committed.shoes
                       /\ committed.shoes[k].last_checked >= c.at
           /\ new => (alert <=> hist)

\* ---- C4 ------------------------------------------------------------------
\* C4: every upsert_shoe call completes without error and appends exactly one
\* price-history row for its product, with the listing's price (NULL when the
\* price is absent, then with was_on_sale false).
C4_OneHistoryRowPerUpsert ==
    \A j \in 1 .. Len(calls) :
        LET c == calls[j]
            rows == history_at(price_history, c.at)
        IN /\ ~c.raised
           /\ Cardinality(rows) = 1
           /\ \A i \in rows :
                /\ price_history[i].product_id = c.listing.product_id
                /\ price_history[i].price = c.listing.current_price
                /\ price_history[i].was_on_sale = c.listing.is_on_sale

\* ---- C5 ------------------------------------------------------------------
\* C5: when the same listing is upserted twice in a row, the second call
\* returns False and creates no alert, the shoe keeps the listing's fields,
\* and each of the two calls adds exactly one price-history row.
C5_SameListingTwice ==
    \A j \in 2 .. Len(calls) :
        calls[j].listing = calls[j - 1].listing =>
            LET c == calls[j]
                k == c.listing.product_id
            IN /\ ~c.raised
               /\ ~c.returned
               /\ alerts_at(sale_alerts, c.at) = {}
               /\ Cardinality(history_at(price_history, c.at)) = 1
               /\ Cardinality(history_at(price_history, calls[j - 1].at)) = 1
               /\ (j = Len(calls) =>
                      shoes[k] = [shoe_row(shoes, c.listing, c.at) EXCEPT
                                     !.first_seen = shoes[k].first_seen])

\* ---- C6 ------------------------------------------------------------------
handed == {unsent_alerts[j] : j \in 1 .. Len(unsent_alerts)}

\* C6: once an alert is marked sent its flag never returns to false, in the
\* connection's view and on disk, and no later call of send_alerts receives it.
C6_SentNeverResent ==
    [][/\ \A i \in 1 .. Len(sale_alerts) :
            sale_alerts[i].alert_sent =>
                /\ i <= Len(sale_alerts')
                /\ sale_alerts'[i].alert_sent
                /\ (pc = "alerts" /\ pc' = "mark") =>
                       \A j \in 1 .. Len(unsent_alerts') : unsent_alerts'[j] # i
       /\ \A i \in 1 .. Len(committed.sale_alerts) :
            committed.sale_alerts[i].alert_sent =>
                /\ i <= Len(committed'.sale_alerts)
                /\ committed'.sale_alerts[i].alert_sent]_vars

\* send_alerts has just been called with a non-empty list while an alert of
\* an earlier cycle is already marked sent
C6_Witness ==
    /\ pc = "mark"
    /\ mark_i = 1
    /\ unsent_alerts # <<>>
    /\ \E i \in 1 .. Len(sale_alerts) : sale_alerts[i].alert_sent

\* ---- C7 ------------------------------------------------------------------
\* C7: an alert that was handed to the Notifier in one cycle without being
\* reported delivered is handed to it again in the next cycle, whether or not
\* that cycle found a new sale.
C7_UndeliveredHandedAgain ==
    pc \in {"review", "summary", "result"} => retry \subseteq handed

\* ---- C8 ------------------------------------------------------------------
\* the alerts of the list handed to the Notifier that are marked sent
marked == {j \in 1 .. Len(unsent_alerts) :
              sale_alerts[unsent_alerts[j]].alert_sent}

C8_AfterMarking ==
    pc \in {"review", "summary", "result", "idle"} =>
        /\ Cardinality(marked) = sent_count
        /\ \A j \in 1 .. Len(unsent_alerts) : j \in marked <=> j <= sent_count

C8_MarkStep ==
    \A i \in 1 .. Len(sale_alerts) :
        (~sale_alerts[i].alert_sent /\ sale_alerts'[i].alert_sent) =>
            /\ pc = "mark"
            /\ \E j \in 1 .. sent_count : unsent_alerts[j] = i

\* C8: in each cycle the alerts that go from unsent to sent are the ones the
\* Notifier reported delivered: as many as send_alerts returned (none when it
\* returned 0), and no alert is marked anywhere else.
C8_MarkedAsReported == [](C8_AfterMarking) /\ [][C8_MarkStep]_vars

\* a cycle in which an alert left undelivered by an earlier cycle and a new
\* one were both reported delivered and marked
C8_Witness ==
    /\ pc = "review"
    /\ retry # {}
    /\ sent_count = 2
    /\ Cardinality(marked) = 2

\* ---- C9 ------------------------------------------------------------------
\* The scenario of C9: the store is empty, the first scraper's fetch_page
\* fails for every url and the second scraper's parse_listing_page yields
\* three on-sale listings of three products in some order.  The notifier is
\* either of the two configurable ones.
ScenarioIds == {"p1", "p2", "p3"}

ScenarioPages ==
    {soup \in [1 .. 3 -> {SaleContainer(k) : k \in ScenarioIds}] :
        \A i, j \in 1 .. 3 : i # j => soup[i] # soup[j]}

\* the one cycle of the scenario
StartCycleC9 ==
    /\ cycle = 0
    /\ StartCycle

\* every fetch_page of the first scraper returns None
FetchFailA ==
    /\ scraper = 1
    /\ FetchFail

\* the second scraper's page parses into the three listings
FetchParseB ==
    /\ pc = "scrape"
    /\ scraper = 2
    /\ url_i \in get_search_urls(scraper)
    /\ \E soup \in ScenarioPages :
         /\ page' = soup
         /\ all_shoes' = all_shoes \o parse_listing_page(soup)
    /\ url_i' = url_i + 1
    /\ visited' = visited \cup {<<scraper, "scrape">>}
    /\ fetches' = Append(fetches, fetch_event(scraper, url_i))
    /\ UNCHANGED <<dbvars, method, pc, cycle, scraper, run_shoes, shoe_i,
                   new_sales, all_new_sales, alertvars, outvars, calls,
                   retry, reviewed>>

\* the scrape() calls of the return expression see the same site: nothing
\* from the first scraper, the three listings from the second
RescrapeC9 ==
    /\ pc = "result"
    /\ ~result.returned
    /\ result' = [result EXCEPT
                    !.total_shoes_checked = @ + (IF scraper = 1 THEN 0 ELSE 3),
                    !.returned = (scraper = NumScrapers),
                    !.new_sales = IF scraper = NumScrapers
                                  THEN all_new_sales ELSE @]
    /\ scraper' = IF scraper < NumScrapers THEN scraper + 1 ELSE scraper
    /\ fetches' = fetches \o scrape_fetches(scraper)
    /\ UNCHANGED <<dbvars, method, pc, cycle, url_i, page, all_shoes,
                   run_shoes, shoe_i, new_sales, all_new_sales, alertvars,
                   manual_review_items, summary, calls, visited, retry,
                   reviewed>>

NextC9 ==
    \/ StartCycleC9
    \/ FetchFailA
    \/ FetchParseB
    \/ ScrapeReturn
    \/ UpsertNext
    \/ UpsertsDone
    \/ CloseScraper
    \/ SendAlerts
    \/ MarkAlertSent
    \/ MarkDone
    \/ Review
    \/ Summary
    \/ RescrapeC9
    \/ Return

SpecC9 == Init /\ [][NextC9]_vars

\* what the loop over the scrapers leaves in the scenario: three shoes and
\* three alerts on disk, all three counted as new sales
C9_Persisted ==
    /\ Cardinality(DOMAIN committed.shoes) = 3
    /\ Len(committed.sale_alerts) = 3
    /\ all_new_sales = 3
    /\ ~in_transaction

\* what the cycle has done when it ends, whatever the notifier did: the three
\* alerts were handed to the Notifier and the summary's statistics count
\* three shoes on sale
C9_Stored ==
    /\ handed = 1 .. 3
    /\ get_stats(committed.shoes).shoes_on_sale = 3
    /\ summary.sent
    /\ summary.stats.shoes_on_sale = 3

C10_FailureIsolated ==
    /\ (pc \in {"result", "idle"} /\ \E s \in Scrapers : <<s, "except">> \in visited)
         => /\ \A s \in Scrapers :
                 /\ <<s, "scrape">> \in visited
                 /\ <<s, "upsert">> \in visited \/ <<s, "except">> \in visited
                 /\ <<s, "close">> \in visited
            /\ <<0, "alerts">> \in visited
            /\ <<0, "raise">> \notin visited =>
                   /\ {<<0, "review">>, <<0, "summary">>} \subseteq visited
                   /\ summary.sent
    /\ (/\ pc = "close"
        /\ <<scraper, "except">> \notin visited
        /\ \E s \in Scrapers : s < scraper /\ <<s, "except">> \in visited)
         => shoe_i = Len(run_shoes) + 1

\* a cycle has ended in which the first scraper raised and a listing of the
\* second scraper was upserted afterwards
C10_Witness ==
    /\ pc = "idle"
    /\ cycle = 1
    /\ <<1, "except">> \in visited
    /\ <<2, "except">> \notin visited
    /\ summary.sent
    /\ calls # <<>>
    /\ ~calls[Len(calls)].raised

\* ---- C11 -----------------------------------------------------------------
\* C11: when upsert_shoe raised a persistence error, run_check processes no
\* further listing or scraper: its next step is to raise the error to its
\* caller.  (The except clause is entered from the upsert loop exactly when
\* run_shoes is not empty; a raising scrape() leaves it empty.)
C11_PersistenceErrorFatal ==
    [][(pc = "except" /\ run_shoes # <<>>) =>
           (pc' = "idle" /\ result'.raised)]_vars

\* ---- C12 -----------------------------------------------------------------
\* C12: when the delivery of the sale alerts failed in a cycle (send_alerts
\* raised or reported nothing delivered), the alerts handed to it are still
\* unsent and the cycle has passed the manual-review items to the Notifier and
\* emitted the summary before it ended.
C12_NotifierFailureRecoverable ==
    (pc = "idle" /\ unsent_alerts # <<>> /\ sent_count = 0) =>
        /\ \A i \in handed : ~sale_alerts[i].alert_sent
        /\ {<<0, "review">>, <<0, "summary">>} \subseteq visited
        /\ summary.sent

\* ---- C13 -----------------------------------------------------------------
\* C13: while the loop over the scrapers runs, no alert has been handed to the
\* Notifier in this cycle; when the alert step is taken every scraper has been
\* scraped, has had its listings upserted (or has raised) and has been
\* closed; and a scraper that did not raise is closed only after its last
\* listing was upserted.
C13_AlertsAfterAllScrapers ==
    /\ pc \in {"scrape", "upsert", "except", "close"} =>
           /\ <<0, "alerts">> \notin visited
           /\ unsent_alerts = <<>>
    /\ (<<0, "alerts">> \in visited \/ pc \in {"alerts", "mark"}) =>
           \A s \in Scrapers :
               /\ <<s, "scrape">> \in visited
               /\ <<s, "upsert">> \in visited \/ <<s, "except">> \in visited
               /\ <<s, "close">> \in visited
    /\ (pc = "close" /\ <<scraper, "except">> \notin visited) =>
           shoe_i = Len(run_shoes) + 1

\* alerts are being handed over in a cycle in which two listings were upserted
\* and no scraper raised
C13_Witness ==
    /\ pc = "mark"
    /\ cycle = 1
    /\ unsent_alerts # <<>>
    /\ Len(calls) = 2
    /\ \A s \in Scrapers : <<s, "except">> \notin visited

\* ---- C14 -----------------------------------------------------------------
flagged == {k \in DOMAIN shoes : shoes[k].requires_manual_review}

\* C14: after the review step of every cycle, the items passed to the
\* manual-review digest are exactly the shoes whose requires_manual_review
\* flag is set, each once, whatever was reported in earlier cycles and whether
\* or not the cycle found a new sale.
C14_FlaggedShoesInDigest ==
    pc \in {"summary", "result"} =>
        /\ {manual_review_items[j] : j \in 1 .. Len(manual_review_items)}
             = flagged
        /\ Len(manual_review_items) = Cardinality(flagged)
        /\ \A k \in flagged : <<cycle, k>> \in reviewed

\* a shoe reported in the first cycle is reported again in the second, which
\* found no new sale
C14_Witness ==
    /\ pc = "summary"
    /\ cycle = 2
    /\ all_new_sales = 0
    /\ \E k \in flagged : <<1, k>> \in reviewed /\ <<2, k>> \in reviewed

\* ---- C15 -----------------------------------------------------------------
\* C15: a step clears a shoe's requires_manual_review flag only if it is
\* mark_manual_review_done (the one writer of shoes that is not an upsert) or
\* an upsert of a listing for that product with a current price.
C15_ReviewClearedByDoneOrPrice ==
    [][\A k \in DOMAIN shoes :
          (shoes[k].requires_manual_review
           /\ ~shoes'[k].requires_manual_review) =>
              \/ calls' = calls
              \/ /\ Len(calls') = Len(calls) + 1
                 /\ calls'[Len(calls')].listing.product_id = k
                 /\ calls'[Len(calls')].listing.current_price # NULL]_vars

\* ---- C16 -----------------------------------------------------------------
\* C16: an upsert of a listing with a price and is_on_sale true for a stored
\* shoe whose requires_manual_review flag is set leaves the shoe with the flag
\* cleared and is_on_sale true, returns True and adds exactly one alert, for
\* that product, in the connection's view and on disk.
C16_ReviewedShoeGoesOnSale ==
    [][Len(calls') = Len(calls) + 1 =>
         LET c == calls'[Len(calls')]
             k == c.listing.product_id
         IN (/\ k \in DOMAIN shoes
             /\ shoes[k].requires_manual_review
             /\ c.listing.current_price # NULL
             /\ c.listing.is_on_sale) =>
                /\ ~c.raised
                /\ c.returned
                /\ ~shoes'[k].requires_manual_review
                /\ shoes'[k].is_on_sale
                /\ Len(sale_alerts') = Len(sale_alerts) + 1
                /\ sale_alerts'[Len(sale_alerts')].product_id = k
                /\ SubSeq(sale_alerts', 1, Len(sale_alerts)) = sale_alerts
                /\ committed'.shoes = shoes'
                /\ committed'.sale_alerts = sale_alerts']_vars

\* in one cycle the hidden-price listing of p1 was upserted and then its
\* on-sale listing with a price
C16_Witness ==
    /\ cycle = 1
    /\ Len(calls) = 2
    /\ calls[1].listing = Hidden("p1")
    /\ calls[2].listing = Sale("p1")
    /\ calls[2].returned
    /\ ~shoes["p1"].requires_manual_review
    /\ shoes["p1"].is_on_sale
    /\ Len(sale_alerts) = 1

\* ---- C17 -----------------------------------------------------------------
\* the listings scrape() holds or has returned
emitted ==
    {all_shoes[i] : i \in 1 .. Len(all_shoes)}
    \cup {run_shoes[i] : i \in 1 .. Len(run_shoes)}

\* C17: every listing the parse step emitted with price_hidden true has
\* is_on_sale false, discount_percentage 0, no current and no original price
\* and requires_manual_review true.
C17_HiddenListingShape ==
    \A l \in emitted :
        l.price_hidden =>
            /\ ~l.is_on_sale
            /\ l.discount_percentage = 0
            /\ l.current_price = NULL
            /\ l.original_price = NULL
            /\ l.requires_manual_review

\* the page parsed last holds a hidden-price container that also carries a
\* sale marker and price elements, and its listing was emitted as hidden
C17_Witness ==
    \E i \in 1 .. Len(page) :
        /\ page[i].kind = "html"
        /\ page[i].hidden_text
        /\ page[i].sale_marker
        /\ page[i].sale_price # NULL
        /\ \E l \in emitted :
             l.product_id = page[i].product_id /\ l.price_hidden

\* ---- C18 -----------------------------------------------------------------
\* C18: an upsert of a listing with price_hidden true, whatever the stored
\* shoe, leaves the shoe with is_on_sale false and requires_manual_review
\* true, returns False and creates no alert.
C18_HiddenUpsertToReview ==
    [][Len(calls') = Len(calls) + 1 =>
         LET c == calls'[Len(calls')]
             k == c.listing.product_id
         IN c.listing.price_hidden =>
                /\ ~c.raised
                /\ ~c.returned
                /\ ~shoes'[k].is_on_sale
                /\ shoes'[k].requires_manual_review
                /\ sale_alerts' = sale_alerts]_vars

\* ---- C19 -----------------------------------------------------------------
MutableFields ==
    {"name", "current_price", "original_price", "discount_percentage",
     "is_on_sale", "price_hidden", "requires_manual_review"}

\* the call made last for product k
last_call(k) == CHOOSE j \in calls_of(k) : \A i \in calls_of(k) : i <= j

C19_LatestSaleFlag ==
    \A k \in DOMAIN shoes :
        calls_of(k) # {} =>
            shoes[k].is_on_sale = calls[last_call(k)].listing.is_on_sale

C19_UpsertStep ==
    Len(calls') = Len(calls) + 1 =>
        LET c == calls'[Len(calls')]
            k == c.listing.product_id
        IN (c.existed /\ ~c.raised) =>
               /\ \A f \in MutableFields : shoes'[k][f] = c.listing[f]
               /\ committed'.shoes = shoes'

\* C19: a successful upsert_shoe on an existing shoe leaves every mutable
\* field of the stored shoe equal to the listing's value (None and False
\* included, nothing is kept from the previous row), and the stored
\* is_on_sale always equals that of the listing applied last for the product.
C19_FieldsReplaced == [](C19_LatestSaleFlag) /\ [][C19_UpsertStep]_vars

\* an on-sale listing without original price replaced a stored shoe that had
\* one
C19_Witness ==
    /\ Len(calls) = 2
    /\ calls[1].listing = Sale("p1")
    /\ calls[2].listing = SaleNoOriginal("p1")
    /\ ~calls[2].raised
    /\ shoes["p1"].original_price = NULL

\* ---- C20 -----------------------------------------------------------------
\* C20: every step leaves the existing price-history rows in place and
\* unchanged, in the connection's view and on disk: the table only grows at
\* its end.
C20_HistoryAppendOnly ==
    [][/\ Len(price_history') >= Len(price_history)
       /\ SubSeq(price_history', 1, Len(price_history)) = price_history
       /\ Len(committed'.price_history) >= Len(committed.price_history)
       /\ SubSeq(committed'.price_history, 1, Len(committed.price_history))
            = committed.price_history]_vars

\* two upserts of one product have each left a history row, and an alert was
\* marked sent
C20_Witness ==
    /\ Len(price_history) = 2
    /\ price_history[1].product_id = price_history[2].product_id
    /\ \E i \in 1 .. Len(sale_alerts) : sale_alerts[i].alert_sent

\* ---- C21 -----------------------------------------------------------------
\* the upsert_shoe call that inserted alert row i
creator(al, i) ==
    CHOOSE j \in 1 .. Len(calls) : calls[j].at = al[i].created_at

\* C21: the sale_price, original_price and discount_percentage of every alert
\* are those of the listing whose upsert created it, whatever upserts of the
\* same product came later, in the table and in the dict get_unsent_alerts
\* returns for an alert that is still unsent.
C21_AlertSnapshot ==
    /\ \A i \in 1 .. Len(sale_alerts) :
          /\ \E j \in 1 .. Len(calls) : calls[j].at = sale_alerts[i].created_at
          /\ LET l == calls[creator(sale_alerts, i)].listing
             IN /\ l.product_id = sale_alerts[i].product_id
                /\ sale_alerts[i].sale_price = l.current_price
                /\ sale_alerts[i].original_price = l.original_price
                /\ sale_alerts[i].discount_percentage = l.discount_percentage
    /\ LET unsent == get_unsent_alerts(sale_alerts, shoes)
       IN \A n \in 1 .. Len(unsent) :
              LET d == alert_dict(sale_alerts, shoes, unsent[n])
                  l == calls[creator(sale_alerts, unsent[n])].listing
              IN /\ d.sale_price = l.current_price
                 /\ d.original_price = l.original_price
                 /\ d.discount_percentage = l.discount_percentage

\* an unsent alert that get_unsent_alerts returns, after a later upsert of
\* the same product with another price
C21_Witness ==
    LET unsent == get_unsent_alerts(sale_alerts, shoes)
    IN \E n \in 1 .. Len(unsent) : \E j \in 1 .. Len(calls) :
           /\ calls[j].at > sale_alerts[unsent[n]].created_at
           /\ calls[j].listing.product_id = sale_alerts[unsent[n]].product_id
           /\ calls[j].listing.current_price # sale_alerts[unsent[n]].sale_price
           /\ shoes[calls[j].listing.product_id].current_price
                  # sale_alerts[unsent[n]].sale_price

\* ---- C22 -----------------------------------------------------------------
\* what a query on a second connection reads while run_check is running: the
\* committed tables, never the writes of the open transaction
reader_view == committed

\* the effects of upsert_shoe call j that the reader can see
seen_effects(j) ==
    LET c == calls[j]
        k == c.listing.product_id
        v == reader_view
    IN {e \in {"shoe", "history", "alert"} :
           \/ /\ e = "shoe"
              /\ k \in DOMAIN v.shoes
              /\ \/ v.shoes[k].last_checked = c.at
                 \/ v.shoes[k].first_seen = c.at
           \/ /\ e = "history"
              /\ \E i \in 1 .. Len(v.price_history) :
                     v.price_history[i].recorded_at = c.at
           \/ /\ e = "alert"
              /\ \E i \in 1 .. Len(v.sale_alerts) :
                     v.sale_alerts[i].created_at = c.at}

\* the effects call j has when it runs to its commit; the shoe-row values
\* may have been overwritten since by a later upsert of the same product
whole_effects(j) ==
    {"history"}
    \cup (IF \E i \in calls_of(calls[j].listing.product_id) : i > j
          THEN {} ELSE {"shoe"})
    \cup (IF j \in sale_edges(calls[j].listing.product_id)
          THEN {"alert"} ELSE {})

\* C22: at every moment of a cycle a reader on its own connection sees, of
\* every upsert made so far, either none of its effects or all of them: the
\* shoe-row change (unless a later upsert replaced it), the price-history
\* row and, for a new sale, the alert row.
C22_ReaderSeesWholeUpserts ==
    \A j \in 1 .. Len(calls) :
        \/ seen_effects(j) = {}
        \/ seen_effects(j) \ {"shoe"} = whole_effects(j) \ {"shoe"}
           /\ whole_effects(j) \subseteq seen_effects(j)

\* ---- C23 -----------------------------------------------------------------
\* C23: whenever fetch_page is called in run_check, the Database connection
\* has no open write transaction: every write of the earlier upserts, those
\* that raised included, has been committed or rolled back.
C23_NoWriteTransactionDuringFetch ==
    \A i \in 1 .. Len(fetches) : ~fetches[i].in_transaction

\* ---- C24 -----------------------------------------------------------------
\* the scrapers whose scrape() was attempted in this cycle's for loop
attempted == {s \in Scrapers : <<s, "scrape">> \in visited}

\* C24: in every cycle close() of a scraper is called after its scrape
\* attempt, whether the scrape and the upserts succeeded or raised (once the
\* for loop has moved past a scraper, the scraper is closed), and no fetch or
\* scrape is performed on a scraper that has been closed in this cycle.
C24_CloseAfterScrapeThenNoFetch ==
    /\ closed \subseteq attempted
    /\ \A s \in attempted : (s < scraper \/ pc \notin {"scrape", "upsert",
                                                       "except", "close"})
                                => s \in closed
    /\ \A i \in 1 .. Len(fetches) : ~fetches[i].after_close

\* ---- C25 -----------------------------------------------------------------
\* how often target u of scraper s was fetched in the running cycle
fetch_count(s, u) ==
    Cardinality({i \in 1 .. Len(fetches) :
                    fetches[i].scraper = s /\ fetches[i].url = u})

\* C25: within one run_check cycle every search url of every scraper is
\* fetched at most once, whether its fetch failed or succeeded.
C25_TargetFetchedAtMostOnce ==
    \A s \in Scrapers : \A u \in get_search_urls(s) : fetch_count(s, u) <= 1

\* ---- C26 -----------------------------------------------------------------
\* one url of scrape() was handled: the for loop of scrape() stays in scrape()
C26_TargetStep ==
    (pc = "scrape" /\ pc' = "scrape")
    => /\ url_i \in get_search_urls(scraper)
       /\ url_i' = url_i + 1
       /\ fetches' = Append(fetches, fetch_event(scraper, url_i))
       /\ Len(all_shoes') >= Len(all_shoes)
       /\ SubSeq(all_shoes', 1, Len(all_shoes)) = all_shoes
       /\ page' = <<>> => all_shoes' = all_shoes

\* scrape() returned to run_check
C26_ReturnStep ==
    (pc = "scrape" /\ pc' = "upsert")
    => /\ \A u \in get_search_urls(scraper) :
              \E i \in 1 .. Len(fetches) :
                  fetches[i].scraper = scraper /\ fetches[i].url = u
       /\ run_shoes' = filter_shoes(all_shoes)

\* C26: in scrape() a url whose fetch failed or whose parse raised is the
\* only thing skipped: the step of a url never leaves scrape() (no raise),
\* moves to the very next url, keeps the listings collected so far and adds
\* nothing when the url yielded nothing; scrape() returns only after every
\* url was fetched, and returns filter_shoes of everything collected.
C26_FailedTargetOnlySkipped ==
    [][/\ C26_TargetStep
       /\ C26_ReturnStep
       /\ (pc = "scrape" /\ fetches' # fetches) => pc' = "scrape"]_vars

\* the first scraper collected listings from its first url and its second
\* url yielded nothing (fetch_page returned None, the parse raised, or the
\* page held no container)
C26_Witness ==
    /\ pc = "scrape"
    /\ scraper = 1
    /\ url_i \notin get_search_urls(scraper)
    /\ page = <<>>
    /\ all_shoes # <<>>
    /\ fetch_count(1, 1) = 1
    /\ fetch_count(1, 2) = 1

\* ---- parse_listing_page and filter_shoes as functions of the page ---------
\* The claims C27 to C30 are about what one page parses and filters into.
\* SpecParse draws a page and applies the two functions to it; here page is
\* the soup before container selection: page[i] is what soup.select()
\* returns for the i-th entry of product_selectors.

ParseItems ==
    {NormalContainer("p1"), SaleContainer("p1"), HiddenContainer("p1"),
     NoPriceContainer("p1"), OffTopicContainer("p1"),
     SmallSaleContainer("p1"), SaleContainer("p1" \o "?red"),
     ThresholdContainer("p2"), DataPriceContainer("p2"),
     AllPricesContainer("p2"), ZeroSaleContainer("p2"),
     NamedContainer("p2", "TRAIL SHOE"), NamedContainer("p2", "Contrails"),
     DataSaleContainer("p2")}

\* what a later selector of the chain matches on the same page
FallbackBlocks ==
    {<<>>, <<NormalContainer("p3")>>, <<HiddenContainer("p3")>>}

\* the pairs of selectors that match on a page of the model: two
\* neighbours of the chain, or its first and last entry
SelectorPairs ==
    {x \in (1 .. NumSelectors) \X (1 .. NumSelectors) :
        x[2] = x[1] + 1 \/ (x[1] = 1 /\ x[2] = NumSelectors)}

\* pages on which at most two selectors match: selector i matches the
\* containers A (possibly none), a later selector j matches B
Soups ==
    {[n \in 1 .. NumSelectors |->
         IF n = ij[1] THEN A ELSE IF n = ij[2] THEN B ELSE <<>>] :
       ij \in SelectorPairs,
       A \in PagesOf(ParseItems, MaxPage),
       B \in FallbackBlocks}

InitParse ==
    /\ shoes = <<>>
    /\ price_history = <<>>
    /\ sale_alerts = <<>>
    /\ committed = [shoes |-> <<>>, price_history |-> <<>>, sale_alerts |-> <<>>]
    /\ now = 1
    /\ method = "console"
    /\ pc = "scrape"
    /\ cycle = 1
    /\ scraper = 1
    /\ url_i = 1
    /\ page \in Soups
    /\ all_shoes = <<>>
    /\ run_shoes = <<>>
    /\ shoe_i = 1
    /\ new_sales = 0
    /\ all_new_sales = 0
    /\ unsent_alerts = <<>>
    /\ sent_count = 0
    /\ mark_i = 1
    /\ manual_review_items = <<>>
    /\ summary = NoSummary
    /\ result = NoResult
    /\ calls = <<>>
    /\ visited = {}
    /\ retry = {}
    /\ reviewed = {}
    /\ fetches = <<>>

\* shoes = self.parse_listing_page(soup, url); all_shoes.extend(shoes)
ParsePage ==
    /\ pc = "scrape"
    /\ url_i = 1
    /\ all_shoes' = all_shoes \o parse_listing_page(product_containers(page))
    /\ url_i' = url_i + 1
    /\ UNCHANGED <<dbvars, method, pc, cycle, scraper, page, run_shoes, shoe_i,
                   new_sales, all_new_sales, alertvars, outvars, logvars>>

\* filtered_shoes = self.filter_shoes(all_shoes); return filtered_shoes
FilterShoes ==
    /\ pc = "scrape"
    /\ url_i = 2
    /\ run_shoes' = filter_shoes(all_shoes)
    /\ pc' = "upsert"
    /\ UNCHANGED <<dbvars, method, cycle, scraper, url_i, page, all_shoes,
                   shoe_i, new_sales, all_new_sales, alertvars, outvars,
                   logvars>>

NextParse ==
    \/ ParsePage
    \/ FilterShoes

SpecParse == InitParse /\ [][NextParse]_vars

\* the page has been parsed / parsed and filtered
parsed == url_i = 2
filtered == pc = "upsert"

\* the containers the parse step worked on: those of the first selector of
\* the chain that matched anything
first_match ==
    LET hits == {n \in 1 .. NumSelectors : page[n] # <<>>}
    IN IF hits = {} THEN <<>>
       ELSE page[CHOOSE n \in hits : \A m \in hits : n <= m]

\* ---- C27 -----------------------------------------------------------------
\* the names of the model that hold a keyword when case is ignored
KeywordNames == {"Trail Runner", "TRAIL SHOE", "Contrails"}

\* C27: filter_shoes returns, in input order, exactly the listings whose
\* name holds a configured keyword as a substring, case ignored, and that
\* are not on sale or are on sale with a discount of at least
\* MIN_DISCOUNT_PERCENTAGE; a keyword-matching listing that is not on sale,
\* a hidden-price one included, is always kept.
C27_FilterKeepsKeywordAndDiscount ==
    filtered =>
        /\ run_shoes = SelectSeq(all_shoes,
               LAMBDA l : /\ l.name \in KeywordNames
                          /\ \/ ~l.is_on_sale
                             \/ l.discount_percentage
                                    >= MIN_DISCOUNT_PERCENTAGE)
        /\ \A i \in 1 .. Len(all_shoes) :
              (all_shoes[i].name \in KeywordNames /\ ~all_shoes[i].is_on_sale)
              => \E j \in 1 .. Len(run_shoes) : run_shoes[j] = all_shoes[i]

\* a page whose listings are an upper-case keyword name, kept, after a sale
\* below the minimum discount, dropped
C27_Witness ==
    /\ filtered
    /\ Len(all_shoes) = 2
    /\ all_shoes[1].is_on_sale
    /\ all_shoes[1].discount_percentage < MIN_DISCOUNT_PERCENTAGE
    /\ all_shoes[2].name = "TRAIL SHOE"
    /\ run_shoes = <<all_shoes[2]>>

\* ---- C28 -----------------------------------------------------------------
\* the listings the container loop appended, before the deduplication
loop_shoes == listings_of(first_match)

\* the product id without its variant suffix, for the ids of the model
normalized(product_id) ==
    IF product_id = "p1?red" THEN "p1" ELSE product_id

\* C28: of the listings parsed from one page whose product ids are equal
\* once the variant suffix (everything from '?') is cut off, the result
\* holds exactly one, the first in page order; the result keeps the page
\* order, and the count of duplicates reported is the parsed count minus the
\* returned count.
C28_FirstOfEachIdKept ==
    parsed =>
        /\ \A i \in 1 .. Len(loop_shoes) :
              LET same == {j \in 1 .. Len(loop_shoes) :
                              normalized(loop_shoes[j].product_id)
                                  = normalized(loop_shoes[i].product_id)}
                  first == CHOOSE j \in same : \A x \in same : j <= x
                  kept == {n \in 1 .. Len(all_shoes) :
                              normalized(all_shoes[n].product_id)
                                  = normalized(loop_shoes[i].product_id)}
              IN /\ Cardinality(kept) = 1
                 /\ \A n \in kept : all_shoes[n] = loop_shoes[first]
        /\ Len(all_shoes) <= Len(loop_shoes)
        /\ duplicates_removed(loop_shoes) = Len(loop_shoes) - Len(all_shoes)
        /\ duplicates_removed(loop_shoes)
               = Cardinality({j \in 1 .. Len(loop_shoes) :
                     \E i \in 1 .. (j - 1) :
                         normalized(loop_shoes[i].product_id)
                             = normalized(loop_shoes[j].product_id)})

\* a page with a container of p1 and, after it, one of its colour variant
C28_Witness ==
    /\ parsed
    /\ Len(loop_shoes) = 2
    /\ loop_shoes[1].product_id = "p1"
    /\ loop_shoes[2].product_id = "p1?red"
    /\ all_shoes = <<loop_shoes[1]>>

\* ---- C29 -----------------------------------------------------------------
\* C29: the containers parse_listing_page works on are those of the first
\* selector of product_selectors, in order, that matches anything; what
\* later selectors match is never added; when no selector matches, no
\* listing is returned.
C29_SelectorFallbackChain ==
    parsed =>
        /\ all_shoes = parse_listing_page(first_match)
        /\ (\A n \in 1 .. NumSelectors : page[n] = <<>>) => all_shoes = <<>>
        /\ \A i \in 1 .. Len(all_shoes) :
              \E j \in 1 .. Len(first_match) :
                  first_match[j].product_id = all_shoes[i].product_id

\* two selectors match on the page and the listings are those of the first
C29_Witness ==
    /\ parsed
    /\ Cardinality({n \in 1 .. NumSelectors : page[n] # <<>>}) = 2
    /\ all_shoes # <<>>
    /\ \A i \in 1 .. Len(all_shoes) : all_shoes[i].product_id # "p3"

\* ---- C30 -----------------------------------------------------------------
\* the first price of the chain sale-price elements, data attributes,
\* generic price elements that is a price, or NULL
resolved_price(c) ==
    LET chain == <<c.sale_price,
                   IF c.data_sale_price # NULL THEN c.data_sale_price
                   ELSE c.data_price,
                   c.price>>
        found == {n \in 1 .. 3 : chain[n] # NULL /\ chain[n] > 0}
    IN IF found = {} THEN NULL
       ELSE chain[CHOOSE n \in found : \A m \in found : n <= m]

\* C30: for a container without hidden-price wording a listing is emitted
\* only if a current price resolves from the sale-price elements, the data
\* attributes or the generic price elements, tried in that order, and it
\* carries that price; a container for which none resolves is dropped: no
\* listing, and no listing flagged for manual review, comes from it.
C30_UnpricedContainerDropped ==
    parsed =>
        /\ Len(loop_shoes)
               = Cardinality({j \in 1 .. Len(first_match) :
                     \/ first_match[j].hidden_text
                     \/ resolved_price(first_match[j]) # NULL})
        /\ \A i \in 1 .. Len(loop_shoes) :
              \E j \in 1 .. Len(first_match) :
                  LET c == first_match[j]
                  IN /\ c.product_id = loop_shoes[i].product_id
                     /\ c.name = loop_shoes[i].name
                     /\ IF c.hidden_text
                        THEN loop_shoes[i].requires_manual_review
                        ELSE /\ resolved_price(c) # NULL
                             /\ loop_shoes[i].current_price = resolved_price(c)
                             /\ ~loop_shoes[i].requires_manual_review
                             /\ ~loop_shoes[i].price_hidden

\* a page with a container that has no price at all, followed by one whose
\* price is in a data attribute: only the second yields a listing
C30_Witness ==
    /\ parsed
    /\ Len(first_match) = 2
    /\ ~first_match[1].hidden_text
    /\ resolved_price(first_match[1]) = NULL
    /\ first_match[2].data_price # NULL
    /\ Len(all_shoes) = 1
    /\ all_shoes[1].current_price = first_match[2].data_price

\* ---- extract_price and calculate_discount as functions of their arguments --
\* SpecPrice draws the argument of one call and applies the function to it:
\* page holds the argument (the text of a price element, or the two prices
\* of a container) and result what the call returned.

\* the characters a price text of the model is made of
PriceAlphabet == {"$", "1", "5", "0", ",", ".", "F"}

\* the texts of the examples: "$149.99", "1,299.00", "Free"
ExampleTexts ==
    {<<"$", "1", "4", "9", ".", "9", "9">>,
     <<"1", ",", "2", "9", "9", ".", "0", "0">>,
     <<"F", "r", "e", "e">>}

PriceTexts == PagesOf(PriceAlphabet, MaxText) \cup ExampleTexts

\* the prices handed to calculate_discount: None, a negative number, the
\* small prices and those of the examples
DiscountPrices == {NULL, 0 - 5} \cup (0 .. MaxPrice) \cup {75, 100}

PriceArguments ==
    {[function |-> "extract_price", price_str |-> t] : t \in PriceTexts}
    \cup {[function |-> "calculate_discount", original_price |-> o,
            sale_price |-> p] : o \in DiscountPrices, p \in DiscountPrices}

InitPrice ==
    /\ shoes = <<>>
    /\ price_history = <<>>
    /\ sale_alerts = <<>>
    /\ committed = [shoes |-> <<>>, price_history |-> <<>>, sale_alerts |-> <<>>]
    /\ now = 1
    /\ method = "console"
    /\ pc = "call"
    /\ cycle = 1
    /\ scraper = 1
    /\ url_i = 1
    /\ page \in PriceArguments
    /\ all_shoes = <<>>
    /\ run_shoes = <<>>
    /\ shoe_i = 1
    /\ new_sales = 0
    /\ all_new_sales = 0
    /\ unsent_alerts = <<>>
    /\ sent_count = 0
    /\ mark_i = 1
    /\ manual_review_items = <<>>
    /\ summary = NoSummary
    /\ result = NoResult
    /\ calls = <<>>
    /\ visited = {}
    /\ retry = {}
    /\ reviewed = {}
    /\ fetches = <<>>

\* current_price = self.extract_price(elem.get_text())
ExtractPrice ==
    /\ pc = "call"
    /\ page.function = "extract_price"
    /\ result' = extract_price(page.price_str)
    /\ pc' = "returned"
    /\ UNCHANGED <<dbvars, method, cycle, loopvars, alertvars,
                   manual_review_items, summary, logvars>>

\* discount = self.calculate_discount(original_price, current_price)
CalculateDiscount ==
    /\ pc = "call"
    /\ page.function = "calculate_discount"
    /\ result' = calculate_discount_rounded(page.original_price,
                                            page.sale_price)
    /\ pc' = "returned"
    /\ UNCHANGED <<dbvars, method, cycle, loopvars, alertvars,
                   manual_review_items, summary, logvars>>

NextPrice ==
    \/ ExtractPrice
    \/ CalculateDiscount

SpecPrice == InitPrice /\ [][NextPrice]_vars

\* the call of the named function has returned
returned(function) == pc = "returned" /\ page.function = function

\* ---- the Database under the calls of any client ----------------------------
\* SpecDb opens an empty database and applies upsert_shoe, mark_alert_sent
\* and mark_manual_review_done in any order, then one of the queries
\* get_active_sales and get_stats.  The logs are used as follows: visited
\* holds, for every upsert_shoe call, its number with the website and the
\* site's product identifier of the listing; unsent_alerts the alert ids
\* passed to mark_alert_sent; reviewed the product ids passed to
\* mark_manual_review_done with the number of upsert_shoe calls made before;
\* result and summary what the queries returned.

\* website_name of DemoScraper and of HiddenPriceExampleScraper
DbWebsites == {"Demo Store", "Example Site"}

\* product identifiers as the sites give them
DbIdentifiers == {"1", "A_1"}

\* the listing of container c as the scraper of website w emits it for the
\* product x
listing_for(c, w, x) ==
    [html_listing(c) EXCEPT !.product_id = generate_product_id(w, x),
                            !.website = w]

\* the listings handed to upsert_shoe: an on-sale listing of every product,
\* and for one product also a full-price, a smaller-discount and a
\* hidden-price listing
DbListings ==
    {<<w, x, listing_for(SaleContainer(""), w, x)>> :
         w \in DbWebsites, x \in DbIdentifiers}
    \cup {<<"Demo Store", "1", listing_for(c, "Demo Store", "1")>> :
             c \in {NormalContainer(""), ThresholdContainer(""),
                    HiddenContainer("")}}

\* the upsert_shoe and mark_alert_sent calls of one behaviour
DbBudget == MaxUpserts + 1

InitDb ==
    /\ shoes = <<>>
    /\ price_history = <<>>
    /\ sale_alerts = <<>>
    /\ committed = [shoes |-> <<>>, price_history |-> <<>>, sale_alerts |-> <<>>]
    /\ now = 1
    /\ method = "console"
    /\ pc = "open"
    /\ cycle = 1
    /\ scraper = 1
    /\ url_i = 1
    /\ page = <<>>
    /\ all_shoes = <<>>
    /\ run_shoes = <<>>
    /\ shoe_i = 1
    /\ new_sales = 0
    /\ all_new_sales = 0
    /\ unsent_alerts = <<>>
    /\ sent_count = 0
    /\ mark_i = 1
    /\ manual_review_items = <<>>
    /\ summary = NoSummary
    /\ result = NoResult
    /\ calls = <<>>
    /\ visited = {}
    /\ retry = {}
    /\ reviewed = {}
    /\ fetches = <<>>

\* db.upsert_shoe(shoe)
DbUpsert ==
    /\ pc = "open"
    /\ Len(calls) < DbBudget
    /\ \E e \in DbListings :
         /\ upsert_shoe(e[3])
         /\ visited' = visited \cup {<<Len(calls) + 1, e[1], e[2]>>}
    /\ UNCHANGED <<method, pc, cycle, loopvars, alertvars, outvars, retry,
                   reviewed, fetches>>

\* db.mark_alert_sent(alert_id), for the id of a stored alert or one past
\* the last
DbMarkAlertSent ==
    /\ pc = "open"
    /\ Len(unsent_alerts) + Len(calls) < DbBudget
    /\ \E id \in 1 .. (Len(sale_alerts) + 1) :
         /\ mark_alert_sent(id)
         /\ unsent_alerts' = Append(unsent_alerts, id)
    /\ UNCHANGED <<method, pc, cycle, loopvars, sent_count, mark_i, outvars,
                   calls, visited, retry, reviewed, fetches>>

\* db.mark_manual_review_done(product_id)
DbMarkManualReviewDone ==
    /\ pc = "open"
    /\ \E k \in DOMAIN shoes :
         /\ shoes[k].requires_manual_review
         /\ mark_manual_review_done(k)
         /\ reviewed' = reviewed \cup {<<Len(calls), k>>}
    /\ UNCHANGED <<method, pc, cycle, loopvars, alertvars, outvars, calls,
                   visited, retry, fetches>>

\* the limits a client passes: None, or a number
DbLimits == {NULL} \cup (0 .. MaxUpserts)

\* db.get_active_sales(limit)
DbGetActiveSales ==
    /\ pc = "open"
    /\ \E limit \in DbLimits :
         \E rows \in get_active_sales(shoes, limit) :
             result' = [limit |-> limit, rows |-> rows]
    /\ pc' = "queried"
    /\ UNCHANGED <<dbvars, method, cycle, loopvars, alertvars,
                   manual_review_items, summary, logvars>>

\* db.get_stats()
DbGetStats ==
    /\ pc = "open"
    /\ summary' = [NoSummary EXCEPT !.sent = TRUE, !.stats = get_stats(shoes)]
    /\ pc' = "queried"
    /\ UNCHANGED <<dbvars, method, cycle, loopvars, alertvars,
                   manual_review_items, result, logvars>>

NextDb ==
    \/ DbUpsert
    \/ DbMarkAlertSent
    \/ DbMarkManualReviewDone
    \/ DbGetActiveSales
    \/ DbGetStats

SpecDb == InitDb /\ [][NextDb]_vars

\* ---- C31 -----------------------------------------------------------------
\* the position in loop_shoes of the listing that container j of the page
\* yields
listing_index(j) ==
    Cardinality({n \in 1 .. j : \/ first_match[n].hidden_text
                                \/ resolved_price(first_match[n]) # NULL})

\* a dedicated sale-price source supplied the current price: a sale-price
\* element, or the data-sale-price attribute when no such element did
sale_source_supplied(c) ==
    \/ c.sale_price # NULL /\ c.sale_price > 0
    \/ /\ ~(c.sale_price # NULL /\ c.sale_price > 0)
       /\ c.data_sale_price # NULL
       /\ c.data_sale_price > 0

\* C31: for a normally extracted listing is_on_sale is true if and only if
\* a dedicated sale-price source supplied the current price, or a sale or
\* clearance marker is in the container, or original price > current price;
\* discount_percentage is calculate_discount of the two prices when
\* is_on_sale holds and both prices are known, and 0 otherwise.
C31_OnSaleDetermination ==
    parsed =>
        \A j \in 1 .. Len(first_match) :
            LET c == first_match[j]
                l == loop_shoes[listing_index(j)]
            IN (~c.hidden_text /\ resolved_price(c) # NULL) =>
                 /\ l.is_on_sale <=>
                        \/ sale_source_supplied(c)
                        \/ c.sale_marker
                        \/ l.original_price > l.current_price
                 /\ l.discount_percentage =
                        IF l.is_on_sale /\ l.original_price # NULL
                           /\ l.current_price # NULL
                        THEN ((l.original_price - l.current_price) * 100)
                                 \div l.original_price
                        ELSE 0

\* ---- C32 -----------------------------------------------------------------
\* C32: calculate_discount(original, sale) returns 0 when original is absent
\* or <= 0 or when sale is absent; for every other input, a present sale
\* price of 0 included, it returns (original - sale) / original * 100
\* rounded to 2 decimals, here the hundredth nearest to it; (100, 75) gives
\* 25.00, (0, 75) gives 0 and (absent, 75) gives 0.
C32_DiscountRounded ==
    returned("calculate_discount") =>
        LET o == page.original_price
            p == page.sale_price
            zero == o = NULL \/ o <= 0 \/ p = NULL
            off == result * o - (o - p) * 10000
        IN /\ zero => result = 0
           /\ ~zero => (2 * off <= o /\ 0 - 2 * off <= o)
           /\ (o = 100 /\ p = 75) => result = 2500
           /\ (o = 0 /\ p = 75) => result = 0
           /\ (o = NULL /\ p = 75) => result = 0

\* ---- C33 -----------------------------------------------------------------
RECURSIVE pow10(_)
pow10(n) == IF n = 0 THEN 1 ELSE 10 * pow10(n - 1)

RECURSIVE sum_over(_, _)
sum_over(f, S) ==
    IF S = {} THEN 0
    ELSE LET x == CHOOSE y \in S : TRUE IN f[x] + sum_over(f, S \ {x})

\* the decimal number a text reads as once everything but digits and
\* points is taken out: its digits weighted by their position, and the
\* count of digits after the point; no number when there are two points or
\* no digit
decimal_reading(text) ==
    LET r == SelectSeq(text, LAMBDA ch : is_digit(ch) \/ ch = ".")
        points == {i \in 1 .. Len(r) : r[i] = "."}
        ds == (1 .. Len(r)) \ points
        weight == [i \in ds |->
                     digit_value(r[i])
                         * pow10(Cardinality({j \in ds : j > i}))]
    IN [number |-> Cardinality(points) <= 1 /\ ds # {},
        units |-> sum_over(weight, ds),
        places |-> Cardinality({j \in ds : \E q \in points : j > q})]

\* C33: extract_price removes every character other than digits, '.' and
\* ',', then the commas, and returns the decimal value of the remainder, or
\* no value when the remainder is empty or is not a number; "$149.99"
\* gives 149.99, "1,299.00" gives 1299.00 and "Free" gives no value.
C33_ExtractPrice ==
    returned("extract_price") =>
        LET d == decimal_reading(page.price_str)
        IN /\ ~d.number => result = NoValue
           /\ d.number =>
                 /\ result # NoValue
                 /\ result.units * pow10(d.places)
                        = d.units * pow10(result.places)
           /\ page.price_str = <<"$", "1", "4", "9", ".", "9", "9">>
                 => result = [units |-> 14999, places |-> 2]
           /\ page.price_str = <<"1", ",", "2", "9", "9", ".", "0", "0">>
                 => result = [units |-> 1299, places |-> 0]
           /\ page.price_str = <<"F", "r", "e", "e">> => result = NoValue

\* the price text "1,299.00" was extracted as 1299
C33_Witness ==
    /\ returned("extract_price")
    /\ page.price_str = <<"1", ",", "2", "9", "9", ".", "0", "0">>
    /\ result = [units |-> 1299, places |-> 0]

\* ---- C34 -----------------------------------------------------------------
\* one mark_alert_sent(id) call, as the claim has it
C34_MarkStep ==
    Len(unsent_alerts') = Len(unsent_alerts) + 1 =>
        LET id == unsent_alerts'[Len(unsent_alerts')]
        IN /\ shoes' = shoes
           /\ price_history' = price_history
           /\ Len(sale_alerts') = Len(sale_alerts)
           /\ \A i \in 1 .. Len(sale_alerts) :
                 i # id => sale_alerts'[i] = sale_alerts[i]
           /\ id \in 1 .. Len(sale_alerts) =>
                 IF sale_alerts[id].alert_sent
                 THEN sale_alerts'[id] = sale_alerts[id]
                 ELSE sale_alerts'[id] =
                          [sale_alerts[id] EXCEPT !.alert_sent = TRUE,
                                                  !.alert_sent_at = now]

\* C34: mark_alert_sent is idempotent: a second call on the same alert id
\* leaves the tables as the first call left them (sent flag true, sent_at of
\* the first call), and a call on an id that does not exist changes nothing.
C34_MarkAlertSentIdempotent == [][C34_MarkStep]_vars

\* ---- C35 -----------------------------------------------------------------
\* get_active_sales has returned
sales_returned == pc = "queried" /\ "rows" \in DOMAIN result

\* C35: get_active_sales(limit) returns only shoes with is_on_sale true, in
\* non-increasing order of discount_percentage, every on-sale shoe when no
\* limit is given and at most limit shoes when a limit >= 0 is given.
C35_ActiveSalesLimited ==
    sales_returned =>
        LET rows == result.rows
        IN /\ \A i \in 1 .. Len(rows) :
                 rows[i] \in DOMAIN shoes /\ shoes[rows[i]].is_on_sale
           /\ \A i, j \in 1 .. Len(rows) :
                 i < j => /\ rows[i] # rows[j]
                          /\ shoes[rows[i]].discount_percentage
                                 >= shoes[rows[j]].discount_percentage
           /\ result.limit = NULL =>
                 \A k \in DOMAIN shoes :
                     shoes[k].is_on_sale
                         => \E i \in 1 .. Len(rows) : rows[i] = k
           /\ result.limit # NULL => Len(rows) <= result.limit

\* ---- C36 -----------------------------------------------------------------
\* the website and the site's product identifier of the listing of call j
source_and_id(j) ==
    LET e == CHOOSE e \in visited : e[1] = j IN <<e[2], e[3]>>

\* C36: shoes are keyed by source plus external id: two upserted listings
\* have the same shoe row exactly when they agree on both website and
\* product identifier, and after upserts that all succeeded the number of
\* stored shoes is the number of distinct (website, identifier) pairs
\* upserted.
C36_KeyedBySourceAndId ==
    /\ \A i, j \in 1 .. Len(calls) :
          /\ calls[i].listing.product_id \in DOMAIN shoes
          /\ (calls[i].listing.product_id = calls[j].listing.product_id)
                 <=> (source_and_id(i) = source_and_id(j))
    /\ (\A j \in 1 .. Len(calls) : ~calls[j].raised) =>
          LET pairs == {source_and_id(j) : j \in 1 .. Len(calls)}
          IN /\ Cardinality(DOMAIN shoes) = Cardinality(pairs)
             /\ Cardinality(DOMAIN committed.shoes) = Cardinality(pairs)

\* three upserts: two sites use the same identifier, and one product was
\* upserted twice; two shoes are stored
C36_Witness ==
    /\ Len(calls) = 3
    /\ \A j \in 1 .. 3 : ~calls[j].raised
    /\ source_and_id(1)[1] # source_and_id(2)[1]
    /\ source_and_id(1)[2] = source_and_id(2)[2]
    /\ source_and_id(3) = source_and_id(1)
    /\ Cardinality(DOMAIN shoes) = 2

\* ---- C37 -----------------------------------------------------------------
\* get_stats has returned
stats_returned == pc = "queried" /\ summary.sent

\* the shoes on sale and the sum of their discounts, in percent
on_sale_shoes == {k \in DOMAIN shoes : shoes[k].is_on_sale}
discount_sum ==
    sum_over([k \in on_sale_shoes |-> shoes[k].discount_percentage],
             on_sale_shoes)

\* the two counts get_stats returns are those of the store
C37_Counts ==
    /\ summary.stats.total_shoes = Cardinality(DOMAIN shoes)
    /\ summary.stats.shoes_on_sale = Cardinality(on_sale_shoes)
    /\ summary.stats.shoes_on_sale <= summary.stats.total_shoes
    /\ on_sale_shoes = {} => summary.stats.average_discount = 0

\* C37 as stated: in every reachable store state get_stats returns
\* total_shoes equal to the number of stored shoes, shoes_on_sale equal to
\* the number of shoes with is_on_sale true, and average_discount equal to
\* the mean discount of the on-sale shoes, 0 when there is none.
C37_StatsExactMean ==
    stats_returned =>
        /\ C37_Counts
        /\ summary.stats.average_discount * Cardinality(on_sale_shoes)
               = 100 * discount_sum

\* C37 (amended): as above, with average_discount equal to the mean
\* discount of the on-sale shoes rounded to 2 decimals.
C37_StatsRoundedMean ==
    stats_returned =>
        LET n == Cardinality(on_sale_shoes)
            off == summary.stats.average_discount * n - 100 * discount_sum
        IN /\ C37_Counts
           /\ 2 * off <= n
           /\ 0 - 2 * off <= n

\* three shoes on sale at 20, 20 and 10 percent next to none at full price:
\* the average returned is 16.67
C37_Witness ==
    /\ stats_returned
    /\ summary.stats.total_shoes = 3
    /\ summary.stats.shoes_on_sale = 3
    /\ discount_sum = 50
    /\ summary.stats.average_discount = 1667

\* ---- C38 -----------------------------------------------------------------
\* one upsert_shoe call of a listing that requires manual review, for a
\* product whose flag was cleared with mark_manual_review_done before
C38_UpsertStep ==
    Len(calls') = Len(calls) + 1 =>
        LET l == calls'[Len(calls')].listing
            k == l.product_id
            items == get_manual_review_items(shoes')
        IN (l.requires_manual_review /\ \E e \in reviewed : e[2] = k) =>
               /\ shoes'[k].requires_manual_review
               /\ \E i \in 1 .. Len(items) : items[i] = k

\* C38: after a shoe's manual-review flag was cleared with
\* mark_manual_review_done, a later upsert of a hidden-price listing
\* (requires_manual_review true) for the same key sets the flag again and
\* the shoe is back in get_manual_review_items: the clear is not remembered.
C38_ClearNotRemembered == [][C38_UpsertStep]_vars

\* a hidden-price listing was upserted, the flag cleared, and the listing
\* upserted again: the shoe is flagged
C38_Witness ==
    /\ Len(calls) = 2
    /\ calls[1].listing.requires_manual_review
    /\ calls[2].listing = calls[1].listing
    /\ reviewed = {<<1, calls[1].listing.product_id>>}
    /\ shoes[calls[1].listing.product_id].requires_manual_review

\* ---- C39 -----------------------------------------------------------------
\* the rows of a table (row id = index) whose product is not k are the same
\* before and after
other_rows_kept(before, after, k) ==
    /\ \A i \in 1 .. Len(before) :
          before[i].product_id # k
              => (i <= Len(after) /\ after[i] = before[i])
    /\ \A i \in 1 .. Len(after) :
          after[i].product_id # k => i <= Len(before)

\* one upsert_shoe call for the product key k
C39_UpsertStep ==
    Len(calls') = Len(calls) + 1 =>
        LET c == calls'[Len(calls')]
            k == c.listing.product_id
        IN /\ DOMAIN shoes' = DOMAIN shoes \cup {k}
           /\ \A x \in DOMAIN shoes : x # k => shoes'[x] = shoes[x]
           /\ other_rows_kept(price_history, price_history', k)
           /\ other_rows_kept(sale_alerts, sale_alerts', k)
           /\ k \in DOMAIN shoes =>
                 /\ shoes'[k].first_seen = shoes[k].first_seen
                 /\ shoes'[k].website = shoes[k].website

\* C39: upsert_shoe for a product key k leaves every shoe row, price-history
\* row and alert row of any other key unchanged, and on an update of a
\* stored shoe it leaves that shoe's first_seen and website unchanged.
C39_UpsertFrame == [][C39_UpsertStep]_vars

\* a shoe was inserted, then one of another key, then the first was updated
\* with a listing that differs: the other shoe is as its own upsert left it
\* and the first kept its first_seen
C39_Witness ==
    /\ Len(calls) = 3
    /\ \A j \in 1 .. 3 : ~calls[j].raised
    /\ calls[3].existed
    /\ calls[3].listing.product_id = calls[1].listing.product_id
    /\ calls[3].listing # calls[1].listing
    /\ calls[2].listing.product_id # calls[1].listing.product_id
    /\ shoes[calls[2].listing.product_id].last_checked = calls[2].at
    /\ shoes[calls[1].listing.product_id].first_seen = calls[1].at
    /\ shoes[calls[1].listing.product_id].last_checked = calls[3].at

\* ---- C40 -----------------------------------------------------------------
\* the alert rows created since run_check was entered
alerts_created ==
    LET e == CHOOSE e \in visited : e[2] = "start"
    IN Len(sale_alerts) - e[1]

\* C40: the new-sale count run_check reports, as the count passed to
\* send_summary and as new_sales of its result, is the number of alert rows
\* created in the store during that cycle, whatever scrapers failed.
C40_NewSalesCountsAlerts ==
    /\ (pc \in {"result", "idle"} /\ summary.sent)
           => summary.sales_count = alerts_created
    /\ (pc = "idle" /\ result.returned) => result.new_sales = alerts_created

====
